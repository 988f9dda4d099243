------------------------------ MODULE IamProofs ------------------------------
(***************************************************************************)
(* Theorems about the parts of the IAM service that MCIam puts side by     *)
(* side, for every set of requests, keys, challenges, rows and editors and *)
(* every bound.  Each part has an inductive invariant of its own:          *)
(* AuthzIInv, MfaIInv, PaginationIInv and RoleEventsIInv.                  *)
(***************************************************************************)
EXTENDS MCIam, FiniteSetTheorems, TLAPS

-----------------------------------------------------------------------------
(* The authorization middleware                                            *)

(* A request that has got as far as the cache has a key, and one that uses *)
(* an enforcer has one, which means that the module has one too.           *)
Located ==
  \A r \in Requests :
    /\ pc[r] \notin {"idle", "healthz", "refused"} => key[r] \in Keys
    /\ pc[r] \in {"clear", "add", "group"} => e[r] \in Requests /\ enforcer \in Requests

(* All rules anywhere were read from the table at some time: those of the  *)
(* enforcers, and those that a request has still to add, which are rules   *)
(* of its own roles.                                                       *)
RulesWereRead ==
  /\ rolePolicies \subseteq rows
  /\ \A r \in Requests : policies[r] \subseteq rows
  /\ \A r \in Requests : pc[r] \in {"new", "clear", "add"} =>
       todo[r] \subseteq rows /\ \A p \in todo[r] : p[1] \in Roles[key[r]]

(* The links of an enforcer are between a subject and roles of its tokens. *)
LinksAreTrue ==
  \A r \in Requests :
    /\ \A s \in Subjects, x \in AllRoles : <<s, x>> \in groups[r] => x \in SubjectRoles(s)
    /\ pc[r] = "group" => todo[r] \subseteq Roles[key[r]]

(* An enforcer is empty when it is created, and nobody uses it before.     *)
NewIsEmpty ==
  /\ enforcer = None =>
       \A r \in Requests : policies[r] = {} /\ pc[r] \notin {"clear", "add", "group"}
  /\ \A r \in Requests : pc[r] = "new" =>
       /\ policies[r] = {} /\ enforcer # r
       /\ \A q \in Requests : pc[q] \in {"clear", "add", "group"} => e[q] # r

(* A rule that request r may find is its own, or not for it, or was lent.  *)
Accounted(r, p) ==
  p[1] \in Roles[key[r]] \/ p[2] # Path[key[r]] \/ <<key[r], p>> \in lent

(* A request that has cleared its enforcer finds there, and in one that    *)
(* was created since, no rules but those.                                  *)
RulesInUse ==
  \A r \in Requests :
    /\ pc[r] \in {"add", "group"} => \A p \in policies[e[r]] : Accounted(r, p)
    /\ pc[r] = "new" /\ enforcer # None => \A p \in policies[enforcer] : Accounted(r, p)
    /\ pc[r] \in {"clear", "add"} /\ enforcer # e[r] =>
         \A p \in policies[enforcer] : Accounted(r, p)

(* A rule lets key k pass as far as its roles go.                          *)
Grant(k, p) == p[1] \in Roles[k] /\ p[2] = Path[k]

(* What the tables may have to do with key k passing.                      *)
Warranted(k) == (\E p \in rows : Grant(k, p)) \/ Borrowed(k)

(* What a request and the cache know of its key by now.                    *)
Checked ==
  /\ Subjects \ barred \subseteq admitted
  /\ \A r \in Requests :
       /\ pc[r] \in {"abac", "allow", "allowed"} => Warranted(key[r])
       /\ pc[r] \in {"allow", "allowed"} => Sub[key[r]] \in admitted
  /\ \A k \in Keys : cache[k] = "allow" => Warranted(k) /\ Sub[k] \in admitted

(* The rule that lets an undisturbed request pass is on its way into the   *)
(* enforcer it will ask, and so are the links of its roles.                *)
Undisturbed ==
  /\ \A k \in Keys \ refusable : \E p \in rolePolicies : Grant(k, p)
  /\ \A r \in Requests \ disturbed : key[r] \in Keys \ refusable =>
       /\ pc[r] \in {"new", "clear"} => \E p \in todo[r] : Grant(key[r], p)
       /\ pc[r] \in {"clear", "add"} => e[r] = enforcer
       /\ pc[r] = "add" => \E p \in todo[r] \cup policies[e[r]] : Grant(key[r], p)
       /\ pc[r] = "group" =>
            /\ \E p \in policies[e[r]] : Grant(key[r], p)
            /\ \A x \in Roles[key[r]] : x \in todo[r] \/ <<Sub[key[r]], x>> \in groups[e[r]]

(* After an error comes the refusal.                                       *)
ErrorsAreFinal == \A r \in failed : pc[r] \in {"catch", "denied"}

AuthzIInv ==
  AuthzTypeOK /\ Located /\ RulesWereRead /\ LinksAreTrue /\ NewIsEmpty /\ RulesInUse
  /\ Checked /\ Undisturbed /\ ErrorsAreFinal

(* The roles of a key are among those of its subject. *)
LEMMA RolesOfKey ==
  \A k \in Keys :
    Sub[k] \in Subjects /\ Roles[k] \subseteq SubjectRoles(Sub[k]) /\ Roles[k] \subseteq AllRoles
  BY DEF Subjects, SubjectRoles, AllRoles

(* Every step keeps the types. *)
LEMMA AuthzTypeStep ==
  ASSUME AuthzTypeOK, Located, LinksAreTrue, RulesWereRead, [AuthzNext]_authzVars
  PROVE  AuthzTypeOK'
  <1> USE AuthzAssumption, RolesOfKey DEF AuthzTypeOK, Located, Answered, tables, casbin, redis,
         local, others, From, Goto, Fault
  <1>1. CASE Change
    BY <1>1 DEF Change, RefusedKeys
  <1>2. CASE Tick
    BY <1>2 DEF Tick
  <1>3. ASSUME NEW r \in Requests, Begin(r) PROVE AuthzTypeOK'
    BY <1>3 DEF Begin
  <1>4. ASSUME NEW r \in Requests, ReadCache(r) PROVE AuthzTypeOK'
    BY <1>4 DEF ReadCache
  <1>5. ASSUME NEW r \in Requests, ReadCacheFails(r) PROVE AuthzTypeOK'
    BY <1>5 DEF ReadCacheFails
  <1>6. ASSUME NEW r \in Requests, FindPolicies(r) PROVE AuthzTypeOK'
    BY <1>6 DEF FindPolicies
  <1>7. ASSUME NEW r \in Requests, NewEnforcer(r) PROVE AuthzTypeOK'
    BY <1>7 DEF NewEnforcer, Overlapped
  <1>8. ASSUME NEW r \in Requests, ClearPolicy(r) PROVE AuthzTypeOK'
    BY <1>8 DEF ClearPolicy, Cleared, Overlapped
  <1>9. ASSUME NEW r \in Requests, AddPolicy(r) PROVE AuthzTypeOK'
    BY <1>9 DEF AddPolicy, Overlapped, Foreign, RulesWereRead
  <1>10. ASSUME NEW r \in Requests, StartGroups(r) PROVE AuthzTypeOK'
    <2>1. Roles[key[r]] \in SUBSET AllRoles
      BY <1>10 DEF StartGroups
    <2>2. todo' \in [Requests -> (SUBSET Policies) \cup (SUBSET AllRoles)]
      <3> DEFINE T == (SUBSET Policies) \cup (SUBSET AllRoles)
      <3>0. Roles[key[r]] \in T
        BY <2>1
      <3>1. todo \in [Requests -> T]
        BY ONLY AuthzTypeOK DEF AuthzTypeOK
      <3>2. todo' = [todo EXCEPT ![r] = Roles[key[r]]]
        BY <1>10 DEF StartGroups
      <3> HIDE DEF T
      <3>3. todo' \in [Requests -> T]
        BY ONLY <3>0, <3>1, <3>2
      <3> QED BY <3>3 DEF T
    <2> QED BY <1>10, <2>2 DEF StartGroups
  <1>11. ASSUME NEW r \in Requests, AddGroupingPolicy(r) PROVE AuthzTypeOK'
    BY <1>11 DEF AddGroupingPolicy, LinksAreTrue
  <1>12. ASSUME NEW r \in Requests, Enforce(r) PROVE AuthzTypeOK'
    BY <1>12 DEF Enforce, RolePassed
  <1>13. ASSUME NEW r \in Requests, CheckAbacRules(r) PROVE AuthzTypeOK'
    BY <1>13 DEF CheckAbacRules
  <1>14. ASSUME NEW r \in Requests, SetCache(r) PROVE AuthzTypeOK'
    BY <1>14 DEF SetCache, Cached
  <1>15. ASSUME NEW r \in Requests, Fails(r) PROVE AuthzTypeOK'
    BY <1>15 DEF Fails, Cached, AfterError
  <1>16. ASSUME NEW r \in Requests, Catch(r) PROVE AuthzTypeOK'
    BY <1>16 DEF Catch, Cached
  <1>17. ASSUME NEW r \in Requests, End(r) PROVE AuthzTypeOK'
    BY <1>17 DEF End
  <1>18. CASE UNCHANGED authzVars
    BY <1>18 DEF authzVars
  <1> QED
    BY <1>1, <1>2, <1>3, <1>4, <1>5, <1>6, <1>7, <1>8, <1>9, <1>10, <1>11, <1>12, <1>13, <1>14,
       <1>15, <1>16, <1>17, <1>18 DEF AuthzNext, Step

(* Every step keeps its key and its enforcer. *)
LEMMA LocatedStep ==
  ASSUME AuthzTypeOK, Located, [AuthzNext]_authzVars
  PROVE  Located'
  <1> USE AuthzAssumption DEF AuthzTypeOK, Located, Answered, tables, casbin, redis, local, others,
         From, Goto, Fault
  <1>1. CASE Change
    BY <1>1 DEF Change
  <1>2. CASE Tick
    BY <1>2 DEF Tick
  <1>3. ASSUME NEW r \in Requests, Begin(r) PROVE Located'
    BY <1>3 DEF Begin
  <1>4. ASSUME NEW r \in Requests, ReadCache(r) PROVE Located'
    BY <1>4 DEF ReadCache
  <1>5. ASSUME NEW r \in Requests, ReadCacheFails(r) PROVE Located'
    BY <1>5 DEF ReadCacheFails
  <1>6. ASSUME NEW r \in Requests, FindPolicies(r) PROVE Located'
    BY <1>6 DEF FindPolicies
  <1>7. ASSUME NEW r \in Requests, NewEnforcer(r) PROVE Located'
    BY <1>7 DEF NewEnforcer
  <1>8. ASSUME NEW r \in Requests, ClearPolicy(r) PROVE Located'
    BY <1>8 DEF ClearPolicy
  <1>9. ASSUME NEW r \in Requests, AddPolicy(r) PROVE Located'
    BY <1>9 DEF AddPolicy
  <1>10. ASSUME NEW r \in Requests, StartGroups(r) PROVE Located'
    BY <1>10 DEF StartGroups
  <1>11. ASSUME NEW r \in Requests, AddGroupingPolicy(r) PROVE Located'
    BY <1>11 DEF AddGroupingPolicy
  <1>12. ASSUME NEW r \in Requests, Enforce(r) PROVE Located'
    BY <1>12 DEF Enforce, RolePassed
  <1>13. ASSUME NEW r \in Requests, CheckAbacRules(r) PROVE Located'
    BY <1>13 DEF CheckAbacRules
  <1>14. ASSUME NEW r \in Requests, SetCache(r) PROVE Located'
    BY <1>14 DEF SetCache
  <1>15. ASSUME NEW r \in Requests, Fails(r) PROVE Located'
    BY <1>15 DEF Fails, AfterError
  <1>16. ASSUME NEW r \in Requests, Catch(r) PROVE Located'
    BY <1>16 DEF Catch
  <1>17. ASSUME NEW r \in Requests, End(r) PROVE Located'
    BY <1>17 DEF End
  <1>18. CASE UNCHANGED authzVars
    BY <1>18 DEF authzVars
  <1> QED
    BY <1>1, <1>2, <1>3, <1>4, <1>5, <1>6, <1>7, <1>8, <1>9, <1>10, <1>11, <1>12, <1>13, <1>14,
       <1>15, <1>16, <1>17, <1>18 DEF AuthzNext, Step

(* Rules come from the table, through the hands of a request. *)
LEMMA RulesStep ==
  ASSUME AuthzTypeOK, Located, RulesWereRead, [AuthzNext]_authzVars
  PROVE  RulesWereRead'
  <1> USE AuthzAssumption DEF AuthzTypeOK, Located, RulesWereRead, Answered, tables,
         casbin, redis, local, others, From, Goto, Fault
  <1>1. CASE Change
    BY <1>1 DEF Change
  <1>2. CASE Tick
    BY <1>2 DEF Tick
  <1>3. ASSUME NEW r \in Requests, Begin(r) PROVE RulesWereRead'
    BY <1>3 DEF Begin
  <1>4. ASSUME NEW r \in Requests, ReadCache(r) PROVE RulesWereRead'
    BY <1>4 DEF ReadCache
  <1>5. ASSUME NEW r \in Requests, ReadCacheFails(r) PROVE RulesWereRead'
    BY <1>5 DEF ReadCacheFails
  <1>6. ASSUME NEW r \in Requests, FindPolicies(r) PROVE RulesWereRead'
    BY <1>6 DEF FindPolicies
  <1>7. ASSUME NEW r \in Requests, NewEnforcer(r) PROVE RulesWereRead'
    BY <1>7 DEF NewEnforcer
  <1>8. ASSUME NEW r \in Requests, ClearPolicy(r) PROVE RulesWereRead'
    BY <1>8 DEF ClearPolicy, Cleared
  <1>9. ASSUME NEW r \in Requests, AddPolicy(r) PROVE RulesWereRead'
    BY <1>9 DEF AddPolicy
  <1>10. ASSUME NEW r \in Requests, StartGroups(r) PROVE RulesWereRead'
    BY <1>10 DEF StartGroups
  <1>11. ASSUME NEW r \in Requests, AddGroupingPolicy(r) PROVE RulesWereRead'
    BY <1>11 DEF AddGroupingPolicy
  <1>12. ASSUME NEW r \in Requests, Enforce(r) PROVE RulesWereRead'
    BY <1>12 DEF Enforce, RolePassed
  <1>13. ASSUME NEW r \in Requests, CheckAbacRules(r) PROVE RulesWereRead'
    BY <1>13 DEF CheckAbacRules
  <1>14. ASSUME NEW r \in Requests, SetCache(r) PROVE RulesWereRead'
    BY <1>14 DEF SetCache
  <1>15. ASSUME NEW r \in Requests, Fails(r) PROVE RulesWereRead'
    BY <1>15 DEF Fails, AfterError
  <1>16. ASSUME NEW r \in Requests, Catch(r) PROVE RulesWereRead'
    BY <1>16 DEF Catch
  <1>17. ASSUME NEW r \in Requests, End(r) PROVE RulesWereRead'
    BY <1>17 DEF End
  <1>18. CASE UNCHANGED authzVars
    BY <1>18 DEF authzVars
  <1> QED
    BY <1>1, <1>2, <1>3, <1>4, <1>5, <1>6, <1>7, <1>8, <1>9, <1>10, <1>11, <1>12, <1>13, <1>14,
       <1>15, <1>16, <1>17, <1>18 DEF AuthzNext, Step

(* Links come from the tokens. *)
LEMMA LinksStep ==
  ASSUME AuthzTypeOK, Located, LinksAreTrue, [AuthzNext]_authzVars
  PROVE  LinksAreTrue'
  <1> USE AuthzAssumption, RolesOfKey DEF AuthzTypeOK, Located, LinksAreTrue, Answered, tables,
         casbin, redis, local, others, From, Goto, Fault
  <1>1. CASE Change
    BY <1>1 DEF Change
  <1>2. CASE Tick
    BY <1>2 DEF Tick
  <1>3. ASSUME NEW r \in Requests, Begin(r) PROVE LinksAreTrue'
    BY <1>3 DEF Begin
  <1>4. ASSUME NEW r \in Requests, ReadCache(r) PROVE LinksAreTrue'
    BY <1>4 DEF ReadCache
  <1>5. ASSUME NEW r \in Requests, ReadCacheFails(r) PROVE LinksAreTrue'
    BY <1>5 DEF ReadCacheFails
  <1>6. ASSUME NEW r \in Requests, FindPolicies(r) PROVE LinksAreTrue'
    BY <1>6 DEF FindPolicies
  <1>7. ASSUME NEW r \in Requests, NewEnforcer(r) PROVE LinksAreTrue'
    BY <1>7 DEF NewEnforcer
  <1>8. ASSUME NEW r \in Requests, ClearPolicy(r) PROVE LinksAreTrue'
    BY <1>8 DEF ClearPolicy
  <1>9. ASSUME NEW r \in Requests, AddPolicy(r) PROVE LinksAreTrue'
    BY <1>9 DEF AddPolicy
  <1>10. ASSUME NEW r \in Requests, StartGroups(r) PROVE LinksAreTrue'
    BY <1>10 DEF StartGroups
  <1>11. ASSUME NEW r \in Requests, AddGroupingPolicy(r) PROVE LinksAreTrue'
    BY <1>11 DEF AddGroupingPolicy
  <1>12. ASSUME NEW r \in Requests, Enforce(r) PROVE LinksAreTrue'
    BY <1>12 DEF Enforce, RolePassed
  <1>13. ASSUME NEW r \in Requests, CheckAbacRules(r) PROVE LinksAreTrue'
    BY <1>13 DEF CheckAbacRules
  <1>14. ASSUME NEW r \in Requests, SetCache(r) PROVE LinksAreTrue'
    BY <1>14 DEF SetCache
  <1>15. ASSUME NEW r \in Requests, Fails(r) PROVE LinksAreTrue'
    BY <1>15 DEF Fails, AfterError
  <1>16. ASSUME NEW r \in Requests, Catch(r) PROVE LinksAreTrue'
    BY <1>16 DEF Catch
  <1>17. ASSUME NEW r \in Requests, End(r) PROVE LinksAreTrue'
    BY <1>17 DEF End
  <1>18. CASE UNCHANGED authzVars
    BY <1>18 DEF authzVars
  <1> QED
    BY <1>1, <1>2, <1>3, <1>4, <1>5, <1>6, <1>7, <1>8, <1>9, <1>10, <1>11, <1>12, <1>13, <1>14,
       <1>15, <1>16, <1>17, <1>18 DEF AuthzNext, Step

(* An enforcer is created empty. *)
LEMMA NewStep ==
  ASSUME AuthzTypeOK, Located, NewIsEmpty, [AuthzNext]_authzVars
  PROVE  NewIsEmpty'
  <1> USE AuthzAssumption DEF NewIsEmpty, AuthzTypeOK, Located, Answered, tables, casbin, redis, local, others,
         From, Goto, Fault
  <1>1. CASE Change
    BY <1>1 DEF Change
  <1>2. CASE Tick
    BY <1>2 DEF Tick
  <1>3. ASSUME NEW r \in Requests, Begin(r) PROVE NewIsEmpty'
    BY <1>3 DEF Begin
  <1>4. ASSUME NEW r \in Requests, ReadCache(r) PROVE NewIsEmpty'
    BY <1>4 DEF ReadCache
  <1>5. ASSUME NEW r \in Requests, ReadCacheFails(r) PROVE NewIsEmpty'
    BY <1>5 DEF ReadCacheFails
  <1>6. ASSUME NEW r \in Requests, FindPolicies(r) PROVE NewIsEmpty'
    BY <1>6 DEF FindPolicies
  <1>7. ASSUME NEW r \in Requests, NewEnforcer(r) PROVE NewIsEmpty'
    BY <1>7 DEF NewEnforcer
  <1>8. ASSUME NEW r \in Requests, ClearPolicy(r) PROVE NewIsEmpty'
    BY <1>8 DEF ClearPolicy, Cleared
  <1>9. ASSUME NEW r \in Requests, AddPolicy(r) PROVE NewIsEmpty'
    BY <1>9 DEF AddPolicy
  <1>10. ASSUME NEW r \in Requests, StartGroups(r) PROVE NewIsEmpty'
    BY <1>10 DEF StartGroups
  <1>11. ASSUME NEW r \in Requests, AddGroupingPolicy(r) PROVE NewIsEmpty'
    BY <1>11 DEF AddGroupingPolicy
  <1>12. ASSUME NEW r \in Requests, Enforce(r) PROVE NewIsEmpty'
    BY <1>12 DEF Enforce, RolePassed
  <1>13. ASSUME NEW r \in Requests, CheckAbacRules(r) PROVE NewIsEmpty'
    BY <1>13 DEF CheckAbacRules
  <1>14. ASSUME NEW r \in Requests, SetCache(r) PROVE NewIsEmpty'
    BY <1>14 DEF SetCache
  <1>15. ASSUME NEW r \in Requests, Fails(r) PROVE NewIsEmpty'
    BY <1>15 DEF Fails, AfterError
  <1>16. ASSUME NEW r \in Requests, Catch(r) PROVE NewIsEmpty'
    BY <1>16 DEF Catch
  <1>17. ASSUME NEW r \in Requests, End(r) PROVE NewIsEmpty'
    BY <1>17 DEF End
  <1>18. CASE UNCHANGED authzVars
    BY <1>18 DEF authzVars
  <1> QED
    BY <1>1, <1>2, <1>3, <1>4, <1>5, <1>6, <1>7, <1>8, <1>9, <1>10, <1>11, <1>12, <1>13, <1>14, <1>15, <1>16, <1>17, <1>18 DEF AuthzNext, Step

(* Rules that others add under a request are lent to it. *)
LEMMA InUseStep ==
  ASSUME AuthzTypeOK, Located, RulesWereRead, NewIsEmpty, RulesInUse, [AuthzNext]_authzVars
  PROVE  RulesInUse'
  <1> USE AuthzAssumption DEF RulesInUse, Accounted, NewIsEmpty, AuthzTypeOK, Located, Answered, tables, casbin, redis, local, others,
         From, Goto, Fault
  <1>1. CASE Change
    BY <1>1 DEF Change
  <1>2. CASE Tick
    BY <1>2 DEF Tick
  <1>3. ASSUME NEW r \in Requests, Begin(r) PROVE RulesInUse'
    BY <1>3 DEF Begin
  <1>4. ASSUME NEW r \in Requests, ReadCache(r) PROVE RulesInUse'
    BY <1>4 DEF ReadCache
  <1>5. ASSUME NEW r \in Requests, ReadCacheFails(r) PROVE RulesInUse'
    BY <1>5 DEF ReadCacheFails
  <1>6. ASSUME NEW r \in Requests, FindPolicies(r) PROVE RulesInUse'
    BY <1>6 DEF FindPolicies
  <1>7. ASSUME NEW r \in Requests, NewEnforcer(r) PROVE RulesInUse'
    BY <1>7 DEF NewEnforcer
  <1>8. ASSUME NEW r \in Requests, ClearPolicy(r) PROVE RulesInUse'
    BY <1>8 DEF ClearPolicy, Cleared
  <1>9. ASSUME NEW r \in Requests, AddPolicy(r) PROVE RulesInUse'
    BY <1>9 DEF AddPolicy, RulesWereRead, Overlapped, Foreign
  <1>10. ASSUME NEW r \in Requests, StartGroups(r) PROVE RulesInUse'
    BY <1>10 DEF StartGroups
  <1>11. ASSUME NEW r \in Requests, AddGroupingPolicy(r) PROVE RulesInUse'
    BY <1>11 DEF AddGroupingPolicy
  <1>12. ASSUME NEW r \in Requests, Enforce(r) PROVE RulesInUse'
    BY <1>12 DEF Enforce, RolePassed
  <1>13. ASSUME NEW r \in Requests, CheckAbacRules(r) PROVE RulesInUse'
    BY <1>13 DEF CheckAbacRules
  <1>14. ASSUME NEW r \in Requests, SetCache(r) PROVE RulesInUse'
    BY <1>14 DEF SetCache
  <1>15. ASSUME NEW r \in Requests, Fails(r) PROVE RulesInUse'
    BY <1>15 DEF Fails, AfterError
  <1>16. ASSUME NEW r \in Requests, Catch(r) PROVE RulesInUse'
    BY <1>16 DEF Catch
  <1>17. ASSUME NEW r \in Requests, End(r) PROVE RulesInUse'
    BY <1>17 DEF End
  <1>18. CASE UNCHANGED authzVars
    BY <1>18 DEF authzVars
  <1> QED
    BY <1>1, <1>2, <1>3, <1>4, <1>5, <1>6, <1>7, <1>8, <1>9, <1>10, <1>11, <1>12, <1>13, <1>14, <1>15, <1>16, <1>17, <1>18 DEF AuthzNext, Step

(* Nobody but another request takes a rule away. *)
LEMMA UndisturbedStep ==
  ASSUME AuthzTypeOK, Located, NewIsEmpty, Undisturbed, [AuthzNext]_authzVars
  PROVE  Undisturbed'
  <1> USE AuthzAssumption DEF Undisturbed, Grant, NewIsEmpty, AuthzTypeOK, Located, Answered, tables, casbin, redis, local, others,
         From, Goto, Fault
  <1>1. CASE Change
    BY <1>1 DEF Change, RefusedKeys, Entitled, Grants
  <1>2. CASE Tick
    BY <1>2 DEF Tick
  <1>3. ASSUME NEW r \in Requests, Begin(r) PROVE Undisturbed'
    BY <1>3 DEF Begin
  <1>4. ASSUME NEW r \in Requests, ReadCache(r) PROVE Undisturbed'
    BY <1>4 DEF ReadCache
  <1>5. ASSUME NEW r \in Requests, ReadCacheFails(r) PROVE Undisturbed'
    BY <1>5 DEF ReadCacheFails
  <1>6. ASSUME NEW r \in Requests, FindPolicies(r) PROVE Undisturbed'
    BY <1>6 DEF FindPolicies
  <1>7. ASSUME NEW r \in Requests, NewEnforcer(r) PROVE Undisturbed'
    BY <1>7 DEF NewEnforcer, Overlapped
  <1>8. ASSUME NEW r \in Requests, ClearPolicy(r) PROVE Undisturbed'
    BY <1>8 DEF ClearPolicy, Cleared, Overlapped
  <1>9. ASSUME NEW r \in Requests, AddPolicy(r) PROVE Undisturbed'
    BY <1>9 DEF AddPolicy
  <1>10. ASSUME NEW r \in Requests, StartGroups(r) PROVE Undisturbed'
    BY <1>10 DEF StartGroups
  <1>11. ASSUME NEW r \in Requests, AddGroupingPolicy(r) PROVE Undisturbed'
    BY <1>11 DEF AddGroupingPolicy
  <1>12. ASSUME NEW r \in Requests, Enforce(r) PROVE Undisturbed'
    BY <1>12 DEF Enforce, RolePassed
  <1>13. ASSUME NEW r \in Requests, CheckAbacRules(r) PROVE Undisturbed'
    BY <1>13 DEF CheckAbacRules
  <1>14. ASSUME NEW r \in Requests, SetCache(r) PROVE Undisturbed'
    BY <1>14 DEF SetCache
  <1>15. ASSUME NEW r \in Requests, Fails(r) PROVE Undisturbed'
    BY <1>15 DEF Fails, AfterError
  <1>16. ASSUME NEW r \in Requests, Catch(r) PROVE Undisturbed'
    BY <1>16 DEF Catch
  <1>17. ASSUME NEW r \in Requests, End(r) PROVE Undisturbed'
    BY <1>17 DEF End
  <1>18. CASE UNCHANGED authzVars
    BY <1>18 DEF authzVars
  <1> QED
    BY <1>1, <1>2, <1>3, <1>4, <1>5, <1>6, <1>7, <1>8, <1>9, <1>10, <1>11, <1>12, <1>13, <1>14, <1>15, <1>16, <1>17, <1>18 DEF AuthzNext, Step

(* The history of the tables and of the loans only grows, and links stay.  *)
LEMMA HistoryGrows ==
  ASSUME AuthzTypeOK, Located, [AuthzNext]_authzVars
  PROVE  /\ rows \subseteq rows' /\ lent \subseteq lent' /\ admitted \subseteq admitted'
         /\ \A x \in Requests : groups[x] \subseteq groups'[x]
  <1> DEFINE Grown == /\ rows \subseteq rows' /\ lent \subseteq lent' /\ admitted \subseteq admitted'
                      /\ \A x \in Requests : groups[x] \subseteq groups'[x]
  <1> USE AuthzAssumption DEF AuthzTypeOK, Located, Answered, tables, casbin, redis, local, others,
         From, Goto, Fault
  <1>1. CASE Change
    BY <1>1 DEF Change
  <1>2. CASE Tick
    BY <1>2 DEF Tick
  <1>3. ASSUME NEW r \in Requests, Begin(r) PROVE Grown
    BY <1>3 DEF Begin
  <1>4. ASSUME NEW r \in Requests, ReadCache(r) PROVE Grown
    BY <1>4 DEF ReadCache
  <1>5. ASSUME NEW r \in Requests, ReadCacheFails(r) PROVE Grown
    BY <1>5 DEF ReadCacheFails
  <1>6. ASSUME NEW r \in Requests, FindPolicies(r) PROVE Grown
    BY <1>6 DEF FindPolicies
  <1>7. ASSUME NEW r \in Requests, NewEnforcer(r) PROVE Grown
    BY <1>7 DEF NewEnforcer
  <1>8. ASSUME NEW r \in Requests, ClearPolicy(r) PROVE Grown
    BY <1>8 DEF ClearPolicy
  <1>9. ASSUME NEW r \in Requests, AddPolicy(r) PROVE Grown
    BY <1>9 DEF AddPolicy
  <1>10. ASSUME NEW r \in Requests, StartGroups(r) PROVE Grown
    BY <1>10 DEF StartGroups
  <1>11. ASSUME NEW r \in Requests, AddGroupingPolicy(r) PROVE Grown
    BY <1>11 DEF AddGroupingPolicy
  <1>12. ASSUME NEW r \in Requests, Enforce(r) PROVE Grown
    BY <1>12 DEF Enforce
  <1>13. ASSUME NEW r \in Requests, CheckAbacRules(r) PROVE Grown
    BY <1>13 DEF CheckAbacRules
  <1>14. ASSUME NEW r \in Requests, SetCache(r) PROVE Grown
    BY <1>14 DEF SetCache
  <1>15. ASSUME NEW r \in Requests, Fails(r) PROVE Grown
    BY <1>15 DEF Fails
  <1>16. ASSUME NEW r \in Requests, Catch(r) PROVE Grown
    BY <1>16 DEF Catch
  <1>17. ASSUME NEW r \in Requests, End(r) PROVE Grown
    BY <1>17 DEF End
  <1>18. CASE UNCHANGED authzVars
    BY <1>18 DEF authzVars
  <1> QED
    BY <1>1, <1>2, <1>3, <1>4, <1>5, <1>6, <1>7, <1>8, <1>9, <1>10, <1>11, <1>12, <1>13, <1>14, <1>15, <1>16, <1>17, <1>18 DEF AuthzNext, Step

(* What speaks for a key goes on to speak for it. *)
LEMMA WarrantStays ==
  ASSUME AuthzTypeOK, Located, [AuthzNext]_authzVars, NEW k \in Keys, Warranted(k)
  PROVE  Warranted(k)'
  <1>1. CASE \E p \in rows : Grant(k, p)
    BY <1>1, HistoryGrows DEF Warranted, Grant
  <1>2. CASE Borrowed(k)
    BY <1>2, HistoryGrows DEF Warranted, Borrowed
  <1> QED BY <1>1, <1>2 DEF Warranted

(* A verdict in favour is warranted. *)
LEMMA MatchIsWarranted ==
  ASSUME AuthzTypeOK, Located, RulesWereRead, LinksAreTrue, RulesInUse,
         NEW r \in Requests, pc[r] = "group", Matches(r)
  PROVE  Warranted(key[r])
  <1>1. key[r] \in Keys /\ e[r] \in Requests
    BY DEF Located
  <1>2. PICK p \in policies[e[r]] :
          p[2] = Path[key[r]] /\ <<Sub[key[r]], p[1]>> \in groups[e[r]]
    BY DEF Matches
  <1>3. p \in rows
    BY <1>1, <1>2 DEF RulesWereRead
  <1>4. Sub[key[r]] \in Subjects /\ p[1] \in AllRoles
    BY <1>1, <1>2, RolesOfKey DEF AuthzTypeOK
  <1>5. PICK j \in Keys : Sub[j] = Sub[key[r]] /\ p[1] \in Roles[j]
    BY <1>1, <1>2, <1>4 DEF LinksAreTrue, SubjectRoles
  <1>6. Accounted(r, p)
    BY <1>2 DEF RulesInUse
  <1>7. CASE p[1] \in Roles[key[r]]
    BY <1>2, <1>3, <1>7 DEF Warranted, Grant
  <1>8. CASE p[1] \notin Roles[key[r]]
    <2>1. <<key[r], p>> \in lent
      BY <1>2, <1>6, <1>8 DEF Accounted
    <2>2. Borrowed(key[r])
      BY <1>1, <1>2, <1>3, <1>5, <1>8, <2>1 DEF Borrowed
    <2> QED BY <2>2 DEF Warranted
  <1> QED BY <1>7, <1>8

(* A request gets on only when the tables have let its key pass. *)
LEMMA CheckedStep ==
  ASSUME AuthzTypeOK, Located, RulesWereRead, LinksAreTrue, RulesInUse, Checked, [AuthzNext]_authzVars
  PROVE  Checked'
  <1> USE AuthzAssumption, RolesOfKey, WarrantStays DEF AuthzTypeOK, Located, Checked, Answered,
         tables, casbin, redis, local, others, From, Goto, Fault
  <1>1. CASE Change
    BY <1>1 DEF Change
  <1>2. CASE Tick
    BY <1>2 DEF Tick
  <1>3. ASSUME NEW r \in Requests, Begin(r) PROVE Checked'
    BY <1>3 DEF Begin
  <1>4. ASSUME NEW r \in Requests, ReadCache(r) PROVE Checked'
    BY <1>4 DEF ReadCache
  <1>5. ASSUME NEW r \in Requests, ReadCacheFails(r) PROVE Checked'
    BY <1>5 DEF ReadCacheFails
  <1>6. ASSUME NEW r \in Requests, FindPolicies(r) PROVE Checked'
    BY <1>6 DEF FindPolicies
  <1>7. ASSUME NEW r \in Requests, NewEnforcer(r) PROVE Checked'
    BY <1>7 DEF NewEnforcer
  <1>8. ASSUME NEW r \in Requests, ClearPolicy(r) PROVE Checked'
    BY <1>8 DEF ClearPolicy
  <1>9. ASSUME NEW r \in Requests, AddPolicy(r) PROVE Checked'
    BY <1>9 DEF AddPolicy
  <1>10. ASSUME NEW r \in Requests, StartGroups(r) PROVE Checked'
    BY <1>10 DEF StartGroups
  <1>11. ASSUME NEW r \in Requests, AddGroupingPolicy(r) PROVE Checked'
    BY <1>11 DEF AddGroupingPolicy
  <1>12. ASSUME NEW r \in Requests, Enforce(r) PROVE Checked'
    <2>1. Matches(r) => Warranted(key[r])
      BY <1>12, MatchIsWarranted DEF Enforce
    <2> QED BY <1>12, <2>1 DEF Enforce, RolePassed
  <1>13. ASSUME NEW r \in Requests, CheckAbacRules(r) PROVE Checked'
    BY <1>13 DEF CheckAbacRules
  <1>14. ASSUME NEW r \in Requests, SetCache(r) PROVE Checked'
    BY <1>14 DEF SetCache, Cached
  <1>15. ASSUME NEW r \in Requests, Fails(r) PROVE Checked'
    BY <1>15 DEF Fails, Cached, AfterError
  <1>16. ASSUME NEW r \in Requests, Catch(r) PROVE Checked'
    BY <1>16 DEF Catch, Cached
  <1>17. ASSUME NEW r \in Requests, End(r) PROVE Checked'
    BY <1>17 DEF End
  <1>18. CASE UNCHANGED authzVars
    BY <1>18 DEF authzVars
  <1> QED
    BY <1>1, <1>2, <1>3, <1>4, <1>5, <1>6, <1>7, <1>8, <1>9, <1>10, <1>11, <1>12, <1>13, <1>14, <1>15, <1>16, <1>17, <1>18 DEF AuthzNext, Step

(* Nothing follows an error but the refusal. *)
LEMMA ErrorsStep ==
  ASSUME AuthzTypeOK, ErrorsAreFinal, [AuthzNext]_authzVars
  PROVE  ErrorsAreFinal'
  <1> USE  DEF AuthzTypeOK, ErrorsAreFinal, Answered, tables, casbin, redis, local, others, From, Goto,
         Fault
  <1>1. CASE Change
    BY <1>1 DEF Change
  <1>2. CASE Tick
    BY <1>2 DEF Tick
  <1>3. ASSUME NEW r \in Requests, Begin(r) PROVE ErrorsAreFinal'
    BY <1>3 DEF Begin
  <1>4. ASSUME NEW r \in Requests, ReadCache(r) PROVE ErrorsAreFinal'
    BY <1>4 DEF ReadCache
  <1>5. ASSUME NEW r \in Requests, ReadCacheFails(r) PROVE ErrorsAreFinal'
    BY <1>5 DEF ReadCacheFails
  <1>6. ASSUME NEW r \in Requests, FindPolicies(r) PROVE ErrorsAreFinal'
    BY <1>6 DEF FindPolicies
  <1>7. ASSUME NEW r \in Requests, NewEnforcer(r) PROVE ErrorsAreFinal'
    BY <1>7 DEF NewEnforcer
  <1>8. ASSUME NEW r \in Requests, ClearPolicy(r) PROVE ErrorsAreFinal'
    BY <1>8 DEF ClearPolicy
  <1>9. ASSUME NEW r \in Requests, AddPolicy(r) PROVE ErrorsAreFinal'
    BY <1>9 DEF AddPolicy
  <1>10. ASSUME NEW r \in Requests, StartGroups(r) PROVE ErrorsAreFinal'
    BY <1>10 DEF StartGroups
  <1>11. ASSUME NEW r \in Requests, AddGroupingPolicy(r) PROVE ErrorsAreFinal'
    BY <1>11 DEF AddGroupingPolicy
  <1>12. ASSUME NEW r \in Requests, Enforce(r) PROVE ErrorsAreFinal'
    BY <1>12 DEF Enforce, RolePassed
  <1>13. ASSUME NEW r \in Requests, CheckAbacRules(r) PROVE ErrorsAreFinal'
    BY <1>13 DEF CheckAbacRules
  <1>14. ASSUME NEW r \in Requests, SetCache(r) PROVE ErrorsAreFinal'
    BY <1>14 DEF SetCache
  <1>15. ASSUME NEW r \in Requests, Fails(r) PROVE ErrorsAreFinal'
    BY <1>15 DEF Fails, AfterError
  <1>16. ASSUME NEW r \in Requests, Catch(r) PROVE ErrorsAreFinal'
    BY <1>16 DEF Catch
  <1>17. ASSUME NEW r \in Requests, End(r) PROVE ErrorsAreFinal'
    BY <1>17 DEF End
  <1>18. CASE UNCHANGED authzVars
    BY <1>18 DEF authzVars
  <1> QED
    BY <1>1, <1>2, <1>3, <1>4, <1>5, <1>6, <1>7, <1>8, <1>9, <1>10, <1>11, <1>12, <1>13, <1>14,
       <1>15, <1>16, <1>17, <1>18 DEF AuthzNext, Step

(* AuthzIInv is an invariant of the middleware.                            *)
THEOREM AuthzInvariance == AuthzSpec => []AuthzIInv
  <1>1. AuthzInit => AuthzIInv
    BY AuthzAssumption
       DEF AuthzInit, AuthzIInv, AuthzTypeOK, Located, RulesWereRead, LinksAreTrue, NewIsEmpty,
           RulesInUse, Checked, Undisturbed, ErrorsAreFinal, Grant, RefusedKeys, Entitled, Grants,
           Answered
  <1>2. AuthzIInv /\ [AuthzNext]_authzVars => AuthzIInv'
    BY AuthzTypeStep, LocatedStep, RulesStep, LinksStep, NewStep, InUseStep, UndisturbedStep,
       CheckedStep, ErrorsStep DEF AuthzIInv
  <1> QED BY <1>1, <1>2, PTL DEF AuthzSpec

(* The authorization middleware lets a request through, or caches that it  *)
(* may pass, only for a token with a role of its own that a row of         *)
(* role_policies granted, or that borrowed one of another token of its     *)
(* subject from a request that overlapped, and for a subject that the      *)
(* attribute rules let pass; it finds nothing for a request whose key the  *)
(* tables always let pass only when another request took the rules away;   *)
(* and a request that met an error is refused.                             *)
THEOREM AuthzIsSafe == AuthzSpec => []AuthzInv
  <1>1. AuthzIInv => AuthzInv
    <2> SUFFICES ASSUME AuthzIInv PROVE AuthzInv
      OBVIOUS
    <2>1. AuthzTypeOK
      BY DEF AuthzIInv
    <2>2. AllowedWasGranted
      <3>1. ASSUME NEW k, Warranted(k), Sub[k] \in admitted PROVE MayPass(k)
        BY <3>1 DEF Warranted, Grant, Grants, MayPass
      <3> QED BY <3>1 DEF AuthzIInv, AllowedWasGranted, Checked
    <2>3. RefusedForAReason
      <3> SUFFICES ASSUME NEW r \in Requests, pc[r] = "group", todo[r] = {},
                          key[r] \notin refusable, r \notin disturbed
                   PROVE  Matches(r)
        BY DEF RefusedForAReason
      <3>1. key[r] \in Keys
        BY DEF AuthzIInv, Located
      <3>2. PICK p \in policies[e[r]] : Grant(key[r], p)
        BY <3>1 DEF AuthzIInv, Undisturbed
      <3>3. <<Sub[key[r]], p[1]>> \in groups[e[r]]
        BY <3>1, <3>2 DEF AuthzIInv, Undisturbed, Grant
      <3> QED BY <3>2, <3>3 DEF Matches, Grant
    <2>4. FailsClosed
      BY DEF AuthzIInv, FailsClosed, ErrorsAreFinal
    <2> QED BY <2>1, <2>2, <2>3, <2>4 DEF AuthzInv
  <1> QED BY <1>1, AuthzInvariance, PTL

-----------------------------------------------------------------------------
(* The multi-factor challenges                                             *)

(* How far an evaluation has come says what it has stored.                 *)
EvaluationStages ==
  \A c \in Challenges :
    /\ evalPc[c] \in {"idle", "create"} => challengeRow[c] = -1
    /\ evalPc[c] \in {"idle", "create", "set", "user"} => code[c] = -1
    /\ expiry[c] <= now + Life
    /\ evalPc[c] \in {"set", "user", "send", "required"} => challengeRow[c] = expiry[c]
    /\ evalPc[c] \in {"user", "send", "required"} =>
         c \in verified \/ pending[c] >= expiry[c]
    /\ evalPc[c] \in {"send", "required"} => code[c] >= 0

(* The key is deleted only when the challenge is spent.                    *)
SpentBeforeDeleted ==
  \A v \in Verifiers : verifyPc[v] \in {"del", "sign"} => target[v] \in verified

(* A late verification never gets past the check, because what made it     *)
(* late stays: a challenge once spent is spent.                            *)
LateStaysLate ==
  \A v \in late : Spent(target[v]) /\ verifyPc[v] \in {"get", "find", "refused", "error"}

MfaIInv ==
  MfaTypeOK /\ EvaluationStages /\ SpentBeforeDeleted /\ LateStaysLate /\ SpentMeansIssued

(* Every step keeps the types. *)
LEMMA MfaTypeStep ==
  ASSUME MfaTypeOK, [MfaNext]_mfaVars
  PROVE  MfaTypeOK'
  <1> USE MfaAssumption DEF MfaTypeOK, EvalAnswers, VerifyAnswers, Dates, evaluate, verify,
         Moves, MfaFault
  <1>1. CASE MfaTick
    BY <1>1 DEF MfaTick
  <1>2. ASSUME NEW c \in Challenges, Evaluate(c) PROVE MfaTypeOK'
    BY <1>2 DEF Evaluate, NeedsMfa
  <1>3. ASSUME NEW c \in Challenges, CreateChallenge(c) PROVE MfaTypeOK'
    BY <1>3 DEF CreateChallenge
  <1>4. ASSUME NEW c \in Challenges, SetPending(c) PROVE MfaTypeOK'
    BY <1>4 DEF SetPending, KeyDies
  <1>5. ASSUME NEW c \in Challenges, FindUser(c) PROVE MfaTypeOK'
    BY <1>5 DEF FindUser
  <1>6. ASSUME NEW c \in Challenges, SendCode(c) PROVE MfaTypeOK'
    BY <1>6 DEF SendCode
  <1>7. ASSUME NEW c \in Challenges, EvaluateFails(c) PROVE MfaTypeOK'
    BY <1>7 DEF EvaluateFails, KeyDies, AfterSetError
  <1>8. ASSUME NEW v \in Verifiers, Verify(v) PROVE MfaTypeOK'
    BY <1>8 DEF Verify
  <1>9. ASSUME NEW v \in Verifiers, VerifyInvalid(v) PROVE MfaTypeOK'
    BY <1>9 DEF VerifyInvalid
  <1>10. ASSUME NEW v \in Verifiers, GetPending(v) PROVE MfaTypeOK'
    BY <1>10 DEF GetPending
  <1>11. ASSUME NEW v \in Verifiers, FindChallenge(v) PROVE MfaTypeOK'
    BY <1>11 DEF FindChallenge
  <1>12. ASSUME NEW v \in Verifiers, Update(v) PROVE MfaTypeOK'
    BY <1>12 DEF Update
  <1>13. ASSUME NEW v \in Verifiers, DelPending(v) PROVE MfaTypeOK'
    BY <1>13 DEF DelPending
  <1>14. ASSUME NEW v \in Verifiers, Issue(v) PROVE MfaTypeOK'
    BY <1>14 DEF Issue
  <1>15. ASSUME NEW v \in Verifiers, VerifyFails(v) PROVE MfaTypeOK'
    BY <1>15 DEF VerifyFails
  <1>16. CASE UNCHANGED mfaVars
    BY <1>16 DEF mfaVars
  <1> QED
    BY <1>1, <1>2, <1>3, <1>4, <1>5, <1>6, <1>7, <1>8, <1>9, <1>10, <1>11, <1>12, <1>13, <1>14,
       <1>15, <1>16 DEF MfaNext, EvaluateStep, VerifyStep

(* Evaluations store one thing after another. *)
LEMMA EvaluationStep ==
  ASSUME MfaTypeOK, EvaluationStages, SpentBeforeDeleted, [MfaNext]_mfaVars
  PROVE  EvaluationStages'
  <1> USE MfaAssumption DEF MfaTypeOK, EvalAnswers, VerifyAnswers, Dates, EvaluationStages,
         evaluate, verify, Moves, MfaFault
  <1>1. CASE MfaTick
    BY <1>1 DEF MfaTick
  <1>2. ASSUME NEW c \in Challenges, Evaluate(c) PROVE EvaluationStages'
    BY <1>2 DEF Evaluate, NeedsMfa
  <1>3. ASSUME NEW c \in Challenges, CreateChallenge(c) PROVE EvaluationStages'
    BY <1>3 DEF CreateChallenge
  <1>4. ASSUME NEW c \in Challenges, SetPending(c) PROVE EvaluationStages'
    BY <1>4 DEF SetPending, KeyDies
  <1>5. ASSUME NEW c \in Challenges, FindUser(c) PROVE EvaluationStages'
    BY <1>5 DEF FindUser
  <1>6. ASSUME NEW c \in Challenges, SendCode(c) PROVE EvaluationStages'
    BY <1>6 DEF SendCode
  <1>7. ASSUME NEW c \in Challenges, EvaluateFails(c) PROVE EvaluationStages'
    BY <1>7 DEF EvaluateFails, KeyDies, AfterSetError
  <1>8. ASSUME NEW v \in Verifiers, Verify(v) PROVE EvaluationStages'
    BY <1>8 DEF Verify
  <1>9. ASSUME NEW v \in Verifiers, VerifyInvalid(v) PROVE EvaluationStages'
    BY <1>9 DEF VerifyInvalid
  <1>10. ASSUME NEW v \in Verifiers, GetPending(v) PROVE EvaluationStages'
    BY <1>10 DEF GetPending
  <1>11. ASSUME NEW v \in Verifiers, FindChallenge(v) PROVE EvaluationStages'
    BY <1>11 DEF FindChallenge
  <1>12. ASSUME NEW v \in Verifiers, Update(v) PROVE EvaluationStages'
    BY <1>12 DEF Update
  <1>13. ASSUME NEW v \in Verifiers, DelPending(v) PROVE EvaluationStages'
    BY <1>13 DEF DelPending, SpentBeforeDeleted
  <1>14. ASSUME NEW v \in Verifiers, Issue(v) PROVE EvaluationStages'
    BY <1>14 DEF Issue
  <1>15. ASSUME NEW v \in Verifiers, VerifyFails(v) PROVE EvaluationStages'
    BY <1>15 DEF VerifyFails, SpentBeforeDeleted
  <1>16. CASE UNCHANGED mfaVars
    BY <1>16 DEF mfaVars
  <1> QED
    BY <1>1, <1>2, <1>3, <1>4, <1>5, <1>6, <1>7, <1>8, <1>9, <1>10, <1>11, <1>12, <1>13, <1>14,
       <1>15, <1>16 DEF MfaNext, EvaluateStep, VerifyStep

(* A challenge is spent before its key is deleted. *)
LEMMA DeletedStep ==
  ASSUME MfaTypeOK, SpentBeforeDeleted, [MfaNext]_mfaVars
  PROVE  SpentBeforeDeleted'
  <1> USE  DEF MfaTypeOK, EvalAnswers, VerifyAnswers, Dates, SpentBeforeDeleted, evaluate,
         verify, Moves, MfaFault
  <1>1. CASE MfaTick
    BY <1>1 DEF MfaTick
  <1>2. ASSUME NEW c \in Challenges, Evaluate(c) PROVE SpentBeforeDeleted'
    BY <1>2 DEF Evaluate
  <1>3. ASSUME NEW c \in Challenges, CreateChallenge(c) PROVE SpentBeforeDeleted'
    BY <1>3 DEF CreateChallenge
  <1>4. ASSUME NEW c \in Challenges, SetPending(c) PROVE SpentBeforeDeleted'
    BY <1>4 DEF SetPending
  <1>5. ASSUME NEW c \in Challenges, FindUser(c) PROVE SpentBeforeDeleted'
    BY <1>5 DEF FindUser
  <1>6. ASSUME NEW c \in Challenges, SendCode(c) PROVE SpentBeforeDeleted'
    BY <1>6 DEF SendCode
  <1>7. ASSUME NEW c \in Challenges, EvaluateFails(c) PROVE SpentBeforeDeleted'
    BY <1>7 DEF EvaluateFails
  <1>8. ASSUME NEW v \in Verifiers, Verify(v) PROVE SpentBeforeDeleted'
    BY <1>8 DEF Verify
  <1>9. ASSUME NEW v \in Verifiers, VerifyInvalid(v) PROVE SpentBeforeDeleted'
    BY <1>9 DEF VerifyInvalid
  <1>10. ASSUME NEW v \in Verifiers, GetPending(v) PROVE SpentBeforeDeleted'
    BY <1>10 DEF GetPending
  <1>11. ASSUME NEW v \in Verifiers, FindChallenge(v) PROVE SpentBeforeDeleted'
    BY <1>11 DEF FindChallenge
  <1>12. ASSUME NEW v \in Verifiers, Update(v) PROVE SpentBeforeDeleted'
    BY <1>12 DEF Update
  <1>13. ASSUME NEW v \in Verifiers, DelPending(v) PROVE SpentBeforeDeleted'
    BY <1>13 DEF DelPending
  <1>14. ASSUME NEW v \in Verifiers, Issue(v) PROVE SpentBeforeDeleted'
    BY <1>14 DEF Issue
  <1>15. ASSUME NEW v \in Verifiers, VerifyFails(v) PROVE SpentBeforeDeleted'
    BY <1>15 DEF VerifyFails
  <1>16. CASE UNCHANGED mfaVars
    BY <1>16 DEF mfaVars
  <1> QED
    BY <1>1, <1>2, <1>3, <1>4, <1>5, <1>6, <1>7, <1>8, <1>9, <1>10, <1>11, <1>12, <1>13, <1>14,
       <1>15, <1>16 DEF MfaNext, EvaluateStep, VerifyStep

(* What is spent stays spent. *)
LEMMA LateStep ==
  ASSUME MfaTypeOK, EvaluationStages, LateStaysLate, [MfaNext]_mfaVars
  PROVE  LateStaysLate'
  <1> USE MfaAssumption DEF MfaTypeOK, EvalAnswers, VerifyAnswers, Dates, LateStaysLate, Spent,
         evaluate, verify, Moves, MfaFault
  <1>1. CASE MfaTick
    BY <1>1 DEF MfaTick
  <1>2. ASSUME NEW c \in Challenges, Evaluate(c) PROVE LateStaysLate'
    BY <1>2 DEF Evaluate, NeedsMfa
  <1>3. ASSUME NEW c \in Challenges, CreateChallenge(c) PROVE LateStaysLate'
    BY <1>3 DEF CreateChallenge, EvaluationStages
  <1>4. ASSUME NEW c \in Challenges, SetPending(c) PROVE LateStaysLate'
    BY <1>4 DEF SetPending, KeyDies
  <1>5. ASSUME NEW c \in Challenges, FindUser(c) PROVE LateStaysLate'
    BY <1>5 DEF FindUser, EvaluationStages
  <1>6. ASSUME NEW c \in Challenges, SendCode(c) PROVE LateStaysLate'
    BY <1>6 DEF SendCode
  <1>7. ASSUME NEW c \in Challenges, EvaluateFails(c) PROVE LateStaysLate'
    BY <1>7 DEF EvaluateFails, KeyDies, AfterSetError, EvaluationStages
  <1>8. ASSUME NEW v \in Verifiers, Verify(v) PROVE LateStaysLate'
    BY <1>8 DEF Verify
  <1>9. ASSUME NEW v \in Verifiers, VerifyInvalid(v) PROVE LateStaysLate'
    BY <1>9 DEF VerifyInvalid
  <1>10. ASSUME NEW v \in Verifiers, GetPending(v) PROVE LateStaysLate'
    BY <1>10 DEF GetPending
  <1>11. ASSUME NEW v \in Verifiers, FindChallenge(v) PROVE LateStaysLate'
    BY <1>11 DEF FindChallenge, Open
  <1>12. ASSUME NEW v \in Verifiers, Update(v) PROVE LateStaysLate'
    BY <1>12 DEF Update
  <1>13. ASSUME NEW v \in Verifiers, DelPending(v) PROVE LateStaysLate'
    BY <1>13 DEF DelPending
  <1>14. ASSUME NEW v \in Verifiers, Issue(v) PROVE LateStaysLate'
    BY <1>14 DEF Issue
  <1>15. ASSUME NEW v \in Verifiers, VerifyFails(v) PROVE LateStaysLate'
    BY <1>15 DEF VerifyFails
  <1>16. CASE UNCHANGED mfaVars
    BY <1>16 DEF mfaVars
  <1> QED
    BY <1>1, <1>2, <1>3, <1>4, <1>5, <1>6, <1>7, <1>8, <1>9, <1>10, <1>11, <1>12, <1>13, <1>14,
       <1>15, <1>16 DEF MfaNext, EvaluateStep, VerifyStep

(* A challenge is spent for a token, or by a failure. *)
LEMMA IssuedStep ==
  ASSUME MfaTypeOK, SpentMeansIssued, [MfaNext]_mfaVars
  PROVE  SpentMeansIssued'
  <1> USE MfaAssumption DEF MfaTypeOK, EvalAnswers, VerifyAnswers, Dates, SpentMeansIssued,
         evaluate, verify, Moves, MfaFault
  <1>1. CASE MfaTick
    BY <1>1 DEF MfaTick
  <1>2. ASSUME NEW c \in Challenges, Evaluate(c) PROVE SpentMeansIssued'
    BY <1>2 DEF Evaluate
  <1>3. ASSUME NEW c \in Challenges, CreateChallenge(c) PROVE SpentMeansIssued'
    BY <1>3 DEF CreateChallenge
  <1>4. ASSUME NEW c \in Challenges, SetPending(c) PROVE SpentMeansIssued'
    BY <1>4 DEF SetPending
  <1>5. ASSUME NEW c \in Challenges, FindUser(c) PROVE SpentMeansIssued'
    BY <1>5 DEF FindUser
  <1>6. ASSUME NEW c \in Challenges, SendCode(c) PROVE SpentMeansIssued'
    BY <1>6 DEF SendCode
  <1>7. ASSUME NEW c \in Challenges, EvaluateFails(c) PROVE SpentMeansIssued'
    BY <1>7 DEF EvaluateFails
  <1>8. ASSUME NEW v \in Verifiers, Verify(v) PROVE SpentMeansIssued'
    BY <1>8 DEF Verify
  <1>9. ASSUME NEW v \in Verifiers, VerifyInvalid(v) PROVE SpentMeansIssued'
    BY <1>9 DEF VerifyInvalid
  <1>10. ASSUME NEW v \in Verifiers, GetPending(v) PROVE SpentMeansIssued'
    BY <1>10 DEF GetPending
  <1>11. ASSUME NEW v \in Verifiers, FindChallenge(v) PROVE SpentMeansIssued'
    BY <1>11 DEF FindChallenge
  <1>12. ASSUME NEW v \in Verifiers, Update(v) PROVE SpentMeansIssued'
    BY <1>12 DEF Update
  <1>13. ASSUME NEW v \in Verifiers, DelPending(v) PROVE SpentMeansIssued'
    BY <1>13 DEF DelPending
  <1>14. ASSUME NEW v \in Verifiers, Issue(v) PROVE SpentMeansIssued'
    BY <1>14 DEF Issue
  <1>15. ASSUME NEW v \in Verifiers, VerifyFails(v) PROVE SpentMeansIssued'
    BY <1>15 DEF VerifyFails
  <1>16. CASE UNCHANGED mfaVars
    BY <1>16 DEF mfaVars
  <1> QED
    BY <1>1, <1>2, <1>3, <1>4, <1>5, <1>6, <1>7, <1>8, <1>9, <1>10, <1>11, <1>12, <1>13, <1>14,
       <1>15, <1>16 DEF MfaNext, EvaluateStep, VerifyStep

(* MfaIInv is an invariant of the challenges.                              *)
THEOREM MfaInvariance == MfaSpec => []MfaIInv
  <1>1. MfaInit => MfaIInv
    BY MfaAssumption
       DEF MfaInit, MfaIInv, MfaTypeOK, EvalAnswers, VerifyAnswers, Dates, EvaluationStages,
           SpentBeforeDeleted, LateStaysLate, SpentMeansIssued
  <1>2. MfaIInv /\ [MfaNext]_mfaVars => MfaIInv'
    BY MfaTypeStep, EvaluationStep, DeletedStep, LateStep, IssuedStep DEF MfaIInv
  <1> QED BY <1>1, <1>2, PTL DEF MfaSpec

(* Whoever is told that a code is required can use it; a verification that *)
(* comes after another has spent the challenge, or after it or its code    *)
(* expired, gets no token; and a challenge is spent only for a token or by *)
(* a failure.                                                              *)
THEOREM ChallengesAreSafe == MfaSpec => []MfaInv
  <1>1. MfaIInv => MfaInv
    <2> SUFFICES ASSUME MfaIInv PROVE MfaInv
      OBVIOUS
    <2>1. LateVerificationRefused
      BY DEF MfaIInv, LateStaysLate, LateVerificationRefused
    <2>2. RequiredIsVerifiable
      BY DEF MfaIInv, EvaluationStages, RequiredIsVerifiable
    <2> QED BY <2>1, <2>2 DEF MfaIInv, MfaInv
  <1> QED BY <1>1, MfaInvariance, PTL

-----------------------------------------------------------------------------
(* The listings                                                            *)

(* What a walk has shown by the time it holds a key as its cursor: nothing *)
(* beyond the key, and all that was there up to it but the cursors.        *)
WalkedSoFar ==
  /\ cursor = Start => shown = {}
  /\ cursor \notin {Start, Done} =>
       /\ \A r \in shown : KeyOf(r) <= cursor
       /\ \A r \in steady \ shown : KeyOf(r) <= cursor => KeyOf(r) \in cursors

PaginationIInv ==
  PaginationTypeOK /\ NoRowTwice /\ OnlyCursorsAreMissed /\ WalkedSoFar /\ IsFiniteSet(cursors)

(* The smaller of two numbers. *)
LEMMA MinOfTwo ==
  ASSUME NEW a \in Nat, NEW b \in Nat
  PROVE  Min({a, b}) = IF a <= b THEN a ELSE b
  <1> DEFINE m == IF a <= b THEN a ELSE b
  <1>1. m \in {a, b} /\ \A y \in {a, b} : m <= y
    OBVIOUS
  <1>2. ASSUME NEW x \in {a, b}, \A y \in {a, b} : x <= y PROVE x = m
    BY <1>2
  <1> HIDE DEF m
  <1>3. Min({a, b}) = m
    BY <1>1, <1>2 DEF Min
  <1> QED BY <1>3 DEF m

(* A database's take: at most n rows, all if there are no more than n, and *)
(* the first in the order.                                                 *)
LEMMA FirstsAre ==
  ASSUME NEW matching, IsFiniteSet(matching), NEW ord, NEW n \in Nat,
         NEW list \in Firsts(matching, ord, n)
  PROVE  /\ list \subseteq matching /\ IsFiniteSet(list) /\ Cardinality(list) \in Nat
         /\ Cardinality(list) <= n
         /\ Cardinality(list) < n => list = matching
         /\ \A r \in list, s \in matching \ list : ord[r] <= ord[s]
  <1>1. Cardinality(matching) \in Nat
    BY FS_CardinalityType
  <1>2. /\ list \in SUBSET matching /\ Cardinality(list) = Min({n, Cardinality(matching)})
        /\ \A r \in list, s \in matching \ list : ord[r] <= ord[s]
    BY DEF Firsts, kSubset
  <1>3. IsFiniteSet(list) /\ (Cardinality(matching) = Cardinality(list) => matching = list)
    BY <1>2, FS_Subset
  <1>4. Cardinality(list) = IF n <= Cardinality(matching) THEN n ELSE Cardinality(matching)
    BY <1>1, <1>2, MinOfTwo
  <1> QED BY <1>1, <1>2, <1>3, <1>4

(* The key of a row is a number. *)
LEMMA KeyIsNat == \A r \in Rows : KeyOf(r) \in Nat
  BY RowAssumption DEF KeyOf

(* A page keeps the invariant, whichever column orders the listing.        *)
LEMMA PageStep ==
  ASSUME PaginationIInv, cursor # Done, NEW ord, \A r \in Rows : KeyOf(r) = ord[r], Page(ord),
         UNCHANGED <<route, caller, present, created, steady>>
  PROVE  PaginationIInv'
  <1> DEFINE matching == {r \in present : After(ord[r], cursor)}
  <1>1. /\ present \subseteq Rows /\ created \subseteq Rows /\ steady \subseteq present
        /\ shown \subseteq Rows /\ present \subseteq created
    BY DEF PaginationIInv, PaginationTypeOK
  <1>2. IsFiniteSet(matching) /\ IsFiniteSet(shown) /\ IsFiniteSet(cursors)
    BY <1>1, RowAssumption, FS_Subset DEF PaginationIInv
  <1>3. \A r \in Rows : KeyOf(r)' = KeyOf(r) /\ KeyOf(r) \in Nat /\ ord[r] = KeyOf(r)
    BY KeyIsNat DEF KeyOf
  <1>4. Taken = PageSize + 1 /\ Taken \in Nat /\ PageSize \in Nat \ {0}
    BY RowAssumption DEF Taken
  <1>5. Cardinality(shown) \in Nat /\ Cardinality(cursors) \in Nat
    BY <1>2, FS_CardinalityType
  <1>6. Cardinality(shown) >= PageSize * Cardinality(cursors)
    BY DEF PaginationIInv, PaginationTypeOK
  <1>7. cursor \in Int /\ Start \notin Nat /\ Done \notin Nat
    BY <1>1, <1>3 DEF PaginationIInv, PaginationTypeOK, Start, Done
  <1>8. matching \cap shown = {}
    <2>1. ASSUME NEW r \in matching, r \in shown PROVE FALSE
      <3>1. cursor # Start /\ KeyOf(r) <= cursor /\ r \in Rows
        BY <1>1, <2>1 DEF PaginationIInv, WalkedSoFar
      <3>2. ord[r] > cursor
        BY <2>1, <3>1 DEF After
      <3> QED BY <1>3, <1>7, <3>1, <3>2
    <2> QED BY <2>1
  <1>9. ASSUME NEW r \in steady \ shown, r \notin matching PROVE KeyOf(r) \in cursors
    BY <1>1, <1>3, <1>7, <1>9 DEF PaginationIInv, WalkedSoFar, After
  <1>10. PICK list \in Firsts(matching, ord, Taken) :
           IF Cardinality(list) > PageSize
           THEN \E last \in {r \in list : \A s \in list : ord[s] <= ord[r]} :
                  Show(Sliced(list, last), ord[last])
           ELSE Show(list, Done)
    BY DEF Page
  <1> HIDE DEF matching
  <1>11. /\ list \subseteq matching /\ IsFiniteSet(list) /\ Cardinality(list) \in Nat
         /\ Cardinality(list) <= Taken
         /\ Cardinality(list) < Taken => list = matching
         /\ \A r \in list, s \in matching \ list : ord[r] <= ord[s]
    BY <1>2, <1>4, <1>10, FirstsAre
  <1>12. matching \subseteq present
    BY DEF matching
  <1>13. CASE Cardinality(list) > PageSize
    <2>1. PICK last \in list : /\ \A s \in list : ord[s] <= ord[last]
                               /\ Show(Sliced(list, last), ord[last])
      BY <1>10, <1>13
    <2> DEFINE page == list \ {last}
    <2>2. last \in Rows /\ KeyOf(last) = ord[last] /\ KeyOf(last) \in Nat /\ last \in created
      BY <1>1, <1>3, <1>11, <1>12
    <2>3. /\ answer' = "200" /\ cursor' = KeyOf(last)
          /\ shown' = shown \cup page /\ repeated' = repeated \cup (shown \cap page)
          /\ cursors' = cursors \cup {KeyOf(last)}
      BY <1>7, <2>1, <2>2 DEF Show, Sliced
    <2>4. IsFiniteSet(page) /\ Cardinality(page) = PageSize
      <3>1. IsFiniteSet(list \ {last}) /\ Cardinality(list \ {last}) = Cardinality(list) - 1
        BY <1>11, FS_RemoveElement
      <3> QED BY <1>4, <1>11, <1>13, <3>1
    <2>5. shown \cap page = {}
      BY <1>8, <1>11
    <2>6. Cardinality(shown') = Cardinality(shown) + PageSize
      <3>1. Cardinality(shown \cup page)
              = Cardinality(shown) + Cardinality(page) - Cardinality(shown \cap page)
        BY ONLY <1>2, <2>4, FS_Union
      <3>2. Cardinality(shown \cap page) = 0
        BY ONLY <2>5, FS_EmptySet
      <3>3. shown' = shown \cup page
        BY <2>3
      <3> HIDE DEF page
      <3> QED BY <1>4, <1>5, <2>4, <3>1, <3>2, <3>3
    <2>7. /\ IsFiniteSet(cursors') /\ Cardinality(cursors') \in Nat
          /\ Cardinality(cursors') <= Cardinality(cursors) + 1
      <3>1. /\ IsFiniteSet(cursors \cup {KeyOf(last)})
            /\ Cardinality(cursors \cup {KeyOf(last)}) =
                 IF KeyOf(last) \in cursors THEN Cardinality(cursors) ELSE Cardinality(cursors) + 1
        BY <1>2, FS_AddElement
      <3> QED BY <1>5, <2>3, <3>1
    <2>8. Cardinality(shown') >= PageSize * Cardinality(cursors')
      <3>1. ASSUME NEW a \in Nat, NEW b \in Nat, NEW p \in Nat, b <= a + 1 PROVE p * b <= p * a + p
        BY <3>1
      <3>2. PageSize * Cardinality(cursors') <= PageSize * Cardinality(cursors) + PageSize
        BY <1>4, <1>5, <2>7, <3>1
      <3>3. ASSUME NEW x \in Nat, NEW y \in Nat PROVE x * y \in Nat
        BY <3>3
      <3>4. PageSize * Cardinality(cursors) \in Nat /\ PageSize * Cardinality(cursors') \in Nat
        BY <1>4, <1>5, <2>7, <3>3
      <3> QED BY <1>4, <1>5, <1>6, <2>6, <3>2, <3>4
    <2>9. PaginationTypeOK'
      <3>1. shown' \subseteq created /\ repeated' \subseteq shown'
        BY <1>1, <1>11, <1>12, <2>3 DEF PaginationIInv, PaginationTypeOK
      <3>2. cursor' \in {KeyOf(r)' : r \in created}
        BY <1>1, <1>3, <2>2, <2>3
      <3> QED BY <2>3, <2>8, <3>1, <3>2 DEF PaginationIInv, PaginationTypeOK
    <2>10. NoRowTwice'
      BY <2>3, <2>5 DEF PaginationIInv, NoRowTwice
    <2>11. cursor' \notin {Start, Done}
      BY <1>7, <2>2, <2>3
    <2>12. ASSUME NEW r \in shown' PROVE KeyOf(r)' <= cursor'
      <3>1. CASE r \in page
        BY <1>1, <1>3, <1>11, <1>12, <2>1, <2>2, <2>3, <3>1
      <3>2. CASE r \in shown
        <4>1. cursor # Start /\ KeyOf(r) <= cursor /\ r \in Rows
          BY <1>1, <3>2 DEF PaginationIInv, WalkedSoFar
        <4>2. ord[last] > cursor
          BY <1>11, <4>1 DEF matching, After
        <4> QED BY <1>3, <1>7, <2>2, <2>3, <4>1, <4>2
      <3> QED BY <2>3, <2>12, <3>1, <3>2
    <2>13. ASSUME NEW r \in steady' \ shown', KeyOf(r)' <= cursor' PROVE KeyOf(r)' \in cursors'
      <3>1. r \in steady \ shown /\ r \notin page /\ r \in Rows
        BY <1>1, <2>3, <2>13
      <3>2. CASE r \notin matching
        BY <1>3, <1>9, <2>3, <3>1, <3>2
      <3>3. CASE r \in list
        BY <1>3, <2>3, <3>1, <3>3
      <3>4. CASE r \in matching \ list
        <4>1. ord[last] <= ord[r]
          BY <1>11, <3>4
        <4>2. KeyOf(r) = KeyOf(last)
          BY <1>3, <2>2, <2>3, <2>13, <3>1, <4>1
        <4> QED BY <1>3, <2>3, <3>1, <4>2
      <3> QED BY <3>2, <3>3, <3>4
    <2>14. WalkedSoFar'
      BY <2>11, <2>12, <2>13 DEF WalkedSoFar
    <2>15. OnlyCursorsAreMissed'
      BY <2>11 DEF OnlyCursorsAreMissed
    <2> QED BY <2>7, <2>9, <2>10, <2>14, <2>15 DEF PaginationIInv
  <1>14. CASE ~(Cardinality(list) > PageSize)
    <2>1. /\ answer' = "200" /\ cursor' = Done
          /\ shown' = shown \cup list /\ repeated' = repeated \cup (shown \cap list)
          /\ cursors' = cursors
      BY <1>10, <1>14 DEF Show
    <2>2. list = matching
      BY <1>4, <1>11, <1>14
    <2>3. IsFiniteSet(shown') /\ Cardinality(shown) <= Cardinality(shown')
      <3>1. IsFiniteSet(shown \cup list)
        BY <1>2, <1>11, FS_Union
      <3>2. shown \in SUBSET (shown \cup list)
        OBVIOUS
      <3> QED BY <2>1, <3>1, <3>2, FS_Subset
    <2>4. Cardinality(shown') >= PageSize * Cardinality(cursors')
      <3>1. Cardinality(shown') \in Nat
        BY <2>3, FS_CardinalityType
      <3>2. ASSUME NEW x \in Nat, NEW y \in Nat PROVE x * y \in Nat
        BY <3>2
      <3>3. PageSize * Cardinality(cursors) \in Nat
        BY <1>4, <1>5, <3>2
      <3> QED BY <1>5, <1>6, <2>1, <2>3, <3>1, <3>3
    <2>5. PaginationTypeOK'
      <3>1. shown' \subseteq created /\ repeated' \subseteq shown'
        BY <1>1, <1>11, <1>12, <2>1 DEF PaginationIInv, PaginationTypeOK
      <3> QED BY <2>1, <2>4, <3>1 DEF PaginationIInv, PaginationTypeOK
    <2>6. NoRowTwice'
      BY <1>8, <2>1, <2>2 DEF PaginationIInv, NoRowTwice
    <2>7. OnlyCursorsAreMissed'
      <3>1. ASSUME NEW r \in steady' \ shown' PROVE KeyOf(r)' \in cursors'
        BY <1>1, <1>3, <1>9, <2>1, <2>2, <3>1
      <3> QED BY <3>1 DEF OnlyCursorsAreMissed
    <2>8. WalkedSoFar'
      BY <2>1 DEF WalkedSoFar, Start, Done
    <2> QED BY <1>2, <2>1, <2>5, <2>6, <2>7, <2>8 DEF PaginationIInv
  <1> QED BY <1>13, <1>14

(* So does the end of a walk that is not allowed.                          *)
LEMMA ForbiddenStep ==
  ASSUME PaginationIInv, Forbidden, UNCHANGED <<route, caller, present, created, steady>>
  PROVE  PaginationIInv'
  BY DEF PaginationIInv, PaginationTypeOK, NoRowTwice, OnlyCursorsAreMissed, WalkedSoFar,
         KeyOf, Forbidden, Start, Done

(* So do rows that come and go.                                            *)
LEMMA RowStep ==
  ASSUME PaginationIInv, NEW r \in Rows, Create(r) \/ Delete(r)
  PROVE  PaginationIInv'
  <1>1. ASSUME NEW q PROVE KeyOf(q)' = KeyOf(q)
    BY DEF KeyOf, Create, Delete
  <1>2. /\ UNCHANGED walk /\ UNCHANGED route
        /\ present' \subseteq created' /\ created \subseteq created' /\ created' \subseteq Rows
        /\ steady' \subseteq present' /\ steady' \subseteq steady
    BY DEF PaginationIInv, PaginationTypeOK, Create, Delete
  <1>3. PaginationTypeOK'
    <2>1. cursor' \in {Start, Done} \cup {KeyOf(q)' : q \in created'}
      BY <1>1, <1>2 DEF PaginationIInv, PaginationTypeOK, walk
    <2> QED BY <1>2, <2>1 DEF PaginationIInv, PaginationTypeOK, walk
  <1>4. NoRowTwice' /\ IsFiniteSet(cursors')
    BY <1>2 DEF PaginationIInv, NoRowTwice, walk
  <1>5. OnlyCursorsAreMissed'
    BY <1>1, <1>2 DEF PaginationIInv, OnlyCursorsAreMissed, walk
  <1>6. WalkedSoFar'
    BY <1>1, <1>2 DEF PaginationIInv, WalkedSoFar, walk
  <1> QED BY <1>3, <1>4, <1>5, <1>6 DEF PaginationIInv

(* PaginationIInv is an invariant of the listings.                         *)
THEOREM PaginationInvariance == PaginationSpec => []PaginationIInv
  <1>1. PaginationInit => PaginationIInv
    <2> SUFFICES ASSUME PaginationInit PROVE PaginationIInv
      OBVIOUS
    <2>1. PageSize * 0 = 0
      BY RowAssumption
    <2> QED
      BY <2>1, FS_EmptySet
         DEF PaginationInit, PaginationIInv, PaginationTypeOK, NoRowTwice, OnlyCursorsAreMissed,
             WalkedSoFar, Start, Done
  <1>2. PaginationIInv /\ [PaginationNext]_paginationVars => PaginationIInv'
    <2> SUFFICES ASSUME PaginationIInv, [PaginationNext]_paginationVars PROVE PaginationIInv'
      OBVIOUS
    <2>1. CASE ListRoles
      <3>1. \A r \in Rows : KeyOf(r) = Id[r]
        BY <2>1 DEF ListRoles, KeyOf
      <3> QED BY <2>1, <3>1, PageStep, ForbiddenStep DEF ListRoles
    <2>2. CASE ListRules
      <3>1. \A r \in Rows : KeyOf(r) = Id[r]
        BY <2>2 DEF ListRules, KeyOf
      <3> QED BY <2>2, <3>1, PageStep, ForbiddenStep DEF ListRules
    <2>3. CASE ListSessions
      <3>1. \A r \in Rows : KeyOf(r) = Age[r]
        BY <2>3 DEF ListSessions, KeyOf
      <3> QED BY <2>3, <3>1, PageStep, ForbiddenStep DEF ListSessions
    <2>4. CASE \E r \in Rows : Create(r) \/ Delete(r)
      BY <2>4, RowStep
    <2>5. CASE UNCHANGED paginationVars
      BY <2>5 DEF paginationVars, walk, PaginationIInv, PaginationTypeOK, NoRowTwice,
                  OnlyCursorsAreMissed, WalkedSoFar, KeyOf
    <2> QED BY <2>1, <2>2, <2>3, <2>4, <2>5 DEF PaginationNext, NextPage
  <1> QED BY <1>1, <1>2, PTL DEF PaginationSpec

(* No row is on two pages of a walk, and a finished walk has missed, of    *)
(* the rows that were there all along, only those that its cursors point   *)
(* at, and sessions of the same instant.                                   *)
THEOREM WalksMissOnlyCursors == PaginationSpec => []PaginationInv
  <1>1. PaginationIInv => PaginationInv
    BY DEF PaginationIInv, PaginationInv
  <1> QED BY <1>1, PaginationInvariance, PTL

-----------------------------------------------------------------------------
(* Roles and rules                                                         *)

(* A request at work has its call, and what it publishes was written.      *)
WrittenFirst ==
  \A r \in Editors :
    /\ changePc[r] \in {"write", "publish"} => call[r] \in Calls
    /\ changePc[r] = "publish" =>
         result[r] \in Row /\ <<call[r].id, result[r]>> \in history

(* The last event about row i shows its state.                             *)
Current(i) ==
  \E n \in 1 .. Len(events) :
    /\ events[n] = <<i, roleRow[i]>>
    /\ \A m \in n + 1 .. Len(events) : events[m][1] # i

(* No two requests were ever at work on row i, and none has failed at it.  *)
Alone(i) == i \notin overlap /\ \A r \in Editors : changePc[r] = "500" => call[r].id # i

(* Of a row that requests took turns at: one at most is at work, what it   *)
(* publishes is the row, and while none has that to do the last event is   *)
(* current.                                                                *)
TurnsAreTold ==
  \A i \in Ids : Alone(i) =>
    /\ \A r, s \in Busy(i) : r = s
    /\ \A r \in Busy(i) : changePc[r] = "publish" => result[r] = roleRow[i]
    /\ (roleRow[i] # NoRow /\ \A r \in Busy(i) : changePc[r] # "publish") => Current(i)

RoleEventsIInv ==
  RoleEventsTypeOK /\ WrittenFirst /\ EventsAreStates /\ AnsweredMeansPublished /\ TurnsAreTold

(* All beginnings are one: the body is refused or not.                     *)
LEMMA RoleSteps ==
  ASSUME RoleEventsNext
  PROVE  \E r \in Editors :
           Handle(r) \/ \E c \in Calls, refused \in BOOLEAN : BeginChange(r, c, refused)
  BY DEF RoleEventsNext, CreateRole, UpdateRole, DeleteRole, CreateRule, UpdateRule, DeleteRule

(* What a request writes is a row.                                         *)
LEMMA WrittenIsRow ==
  ASSUME RoleEventsTypeOK, NEW r \in Editors, call[r] \in Calls,
         call[r].op = "create" \/ roleRow[call[r].id] # NoRow
  PROVE  Written(r) \in Row
  <1>1. call[r].id \in Ids /\ call[r].op \in {"create", "update", "delete"}
    BY DEF Calls
  <1>2. call[r].op # "create" => roleRow[call[r].id] \in Row
    BY <1>1 DEF RoleEventsTypeOK
  <1>3. CASE call[r].op = "create"
    <2>1. Written(r) = [by |-> r, deleted |-> FALSE]
      BY <1>3 DEF Written
    <2> QED BY <2>1 DEF Row
  <1>4. CASE call[r].op = "update"
    <2>1. Written(r) = [roleRow[call[r].id] EXCEPT !.by = r]
      BY <1>4 DEF Written
    <2> QED BY <1>2, <1>4, <2>1 DEF Row
  <1>5. CASE call[r].op = "delete"
    <2>1. Written(r) = [roleRow[call[r].id] EXCEPT !.deleted = TRUE]
      BY <1>5 DEF Written
    <2> QED BY <1>2, <1>5, <2>1 DEF Row
  <1> QED BY <1>1, <1>3, <1>4, <1>5

(* What is appended comes after all that was there.                        *)
LEMMA Appended ==
  ASSUME NEW S, NEW s \in Seq(S), NEW x \in S
  PROVE  /\ Append(s, x) \in Seq(S) /\ Len(s) \in Nat /\ Len(Append(s, x)) = Len(s) + 1
         /\ \A n \in 1 .. Len(s) : Append(s, x)[n] = s[n]
         /\ Append(s, x)[Len(s) + 1] = x
         /\ Range(Append(s, x)) = Range(s) \cup {x}
  <1>1. /\ Append(s, x) \in Seq(S) /\ Len(s) \in Nat /\ Len(Append(s, x)) = Len(s) + 1
        /\ \A n \in 1 .. Len(s) : Append(s, x)[n] = s[n]
        /\ Append(s, x)[Len(s) + 1] = x
    OBVIOUS
  <1>2. DOMAIN s = 1 .. Len(s) /\ DOMAIN Append(s, x) = 1 .. Len(s) + 1
    OBVIOUS
  <1>3. Range(Append(s, x)) = Range(s) \cup {x}
    BY <1>1, <1>2 DEF Range
  <1> QED BY <1>1, <1>3

(* Every step keeps the types. *)
LEMMA RolesTypeStep ==
  ASSUME RoleEventsTypeOK, WrittenFirst, [RoleEventsNext]_roleEventsVars
  PROVE  RoleEventsTypeOK'
  <1> USE RoleSteps, RoleAssumption DEF RoleEventsTypeOK, Status, Ended
  <1>1. ASSUME NEW r \in Editors, Write(r) PROVE RoleEventsTypeOK'
    <2>1. Written(r) \in Row
      BY <1>1, WrittenIsRow DEF Write, WrittenFirst
    <2>2. call[r].id \in Ids
      BY <1>1 DEF Write, WrittenFirst, Calls
    <2> HIDE DEF Row
    <2> QED BY <1>1, <2>1, <2>2 DEF Write
  <1>2. ASSUME NEW r \in Editors, Publish(r) PROVE RoleEventsTypeOK'
    <2>1. <<call[r].id, result[r]>> \in Ids \X Row
      BY <1>2 DEF Publish, WrittenFirst, Calls
    <2>2. events' \in Seq(Ids \X Row)
      BY <1>2, <2>1, Appended DEF Publish, Message
    <2>3. call[r] # NoRow
      BY <1>2, RoleAssumption DEF Publish, WrittenFirst
    <2> QED BY <1>2, <2>2, <2>3 DEF Publish, AfterSend
  <1>3. ASSUME NEW r \in Editors, ChangeFails(r) PROVE RoleEventsTypeOK'
    <2>1. (call[r].op = "create" \/ roleRow[call[r].id] # NoRow) => Written(r) \in Row
      BY <1>3, WrittenIsRow DEF ChangeFails, WrittenFirst
    <2>2. call[r].id \in Ids
      BY <1>3 DEF ChangeFails, WrittenFirst, Calls
    <2>3. call[r] # NoRow
      BY <1>3, RoleAssumption DEF ChangeFails, WrittenFirst
    <2> QED BY <1>3, <2>1, <2>2, <2>3 DEF ChangeFails, AfterChangeError
  <1>4. ASSUME NEW r \in Editors, NEW c \in Calls, NEW refused \in BOOLEAN,
               BeginChange(r, c, refused)
        PROVE  RoleEventsTypeOK'
    BY <1>4 DEF BeginChange, First, Calls
  <1>5. CASE UNCHANGED roleEventsVars
    BY <1>5 DEF roleEventsVars
  <1> HIDE DEF RoleEventsTypeOK, Status, Ended
  <1> QED
    BY <1>1, <1>2, <1>3, <1>4, <1>5 DEF Handle

(* A request publishes what it has written. *)
LEMMA WrittenStep ==
  ASSUME RoleEventsTypeOK, WrittenFirst, [RoleEventsNext]_roleEventsVars
  PROVE  WrittenFirst'
  <1> USE RoleSteps, RoleAssumption DEF RoleEventsTypeOK, Status, Ended, WrittenFirst
  <1>1. ASSUME NEW r \in Editors, Write(r) PROVE WrittenFirst'
    <2>1. Written(r) \in Row
      BY <1>1, WrittenIsRow DEF Write
    <2>2. call[r].id \in Ids
      BY <1>1 DEF Write, Calls
    <2> HIDE DEF Row
    <2> QED BY <1>1, <2>1, <2>2 DEF Write
  <1>2. ASSUME NEW r \in Editors, Publish(r) PROVE WrittenFirst'
    BY <1>2 DEF Publish, AfterSend
  <1>3. ASSUME NEW r \in Editors, ChangeFails(r) PROVE WrittenFirst'
    BY <1>3 DEF ChangeFails, AfterChangeError
  <1>4. ASSUME NEW r \in Editors, NEW c \in Calls, NEW refused \in BOOLEAN,
               BeginChange(r, c, refused)
        PROVE  WrittenFirst'
    BY <1>4 DEF BeginChange, First
  <1>5. CASE UNCHANGED roleEventsVars
    BY <1>5 DEF roleEventsVars
  <1> HIDE DEF RoleEventsTypeOK, Status, Ended, WrittenFirst
  <1> QED
    BY <1>1, <1>2, <1>3, <1>4, <1>5 DEF Handle

(* An event is a state that was written. *)
LEMMA StatesStep ==
  ASSUME RoleEventsTypeOK, WrittenFirst, EventsAreStates, [RoleEventsNext]_roleEventsVars
  PROVE  EventsAreStates'
  <1> USE RoleSteps DEF RoleEventsTypeOK, Status, Ended, EventsAreStates
  <1>1. ASSUME NEW r \in Editors, Write(r) PROVE EventsAreStates'
    BY <1>1 DEF Write
  <1>2. ASSUME NEW r \in Editors, Publish(r) PROVE EventsAreStates'
    <2>1. <<call[r].id, result[r]>> \in Ids \X Row /\ <<call[r].id, result[r]>> \in history
      BY <1>2 DEF Publish, WrittenFirst, Calls
    <2>2. Range(events') = Range(events) \cup {<<call[r].id, result[r]>>}
      <3>1. events' = Append(events, <<call[r].id, result[r]>>)
        BY <1>2 DEF Publish, Message
      <3>2. events \in Seq(Ids \X Row)
        OBVIOUS
      <3>3. <<call[r].id, result[r]>> \in Ids \X Row
        BY <2>1
      <3>4. Range(Append(events, <<call[r].id, result[r]>>))
              = Range(events) \cup {<<call[r].id, result[r]>>}
        BY ONLY <3>2, <3>3, Appended
      <3> QED BY <3>1, <3>4
    <2> QED BY <1>2, <2>1, <2>2 DEF Publish
  <1>3. ASSUME NEW r \in Editors, ChangeFails(r) PROVE EventsAreStates'
    BY <1>3 DEF ChangeFails
  <1>4. ASSUME NEW r \in Editors, NEW c \in Calls, NEW refused \in BOOLEAN,
               BeginChange(r, c, refused)
        PROVE  EventsAreStates'
    BY <1>4 DEF BeginChange
  <1>5. CASE UNCHANGED roleEventsVars
    BY <1>5 DEF roleEventsVars
  <1> HIDE DEF RoleEventsTypeOK, Status, Ended, EventsAreStates
  <1> QED
    BY <1>1, <1>2, <1>3, <1>4, <1>5 DEF Handle

(* A good answer follows the event. *)
LEMMA AnsweredStep ==
  ASSUME RoleEventsTypeOK, WrittenFirst, AnsweredMeansPublished, [RoleEventsNext]_roleEventsVars
  PROVE  AnsweredMeansPublished'
  <1> USE RoleSteps DEF RoleEventsTypeOK, Status, Ended, AnsweredMeansPublished
  <1>1. ASSUME NEW r \in Editors, Write(r) PROVE AnsweredMeansPublished'
    BY <1>1 DEF Write
  <1>2. ASSUME NEW r \in Editors, Publish(r) PROVE AnsweredMeansPublished'
    <2>1. <<call[r].id, result[r]>> \in Ids \X Row /\ result[r] \in Row
      BY <1>2 DEF Publish, WrittenFirst, Calls
    <2>2. Range(events') = Range(events) \cup {<<call[r].id, result[r]>>}
      <3>1. events' = Append(events, <<call[r].id, result[r]>>)
        BY <1>2 DEF Publish, Message
      <3>2. events \in Seq(Ids \X Row)
        OBVIOUS
      <3> QED BY ONLY <2>1, <3>1, <3>2, Appended
    <2>3. <<call[r].id, result[r]>>[1] = call[r].id /\ <<call[r].id, result[r]>>[2] = result[r]
      OBVIOUS
    <2>4. result[r] # NoRow
      BY <2>1, RoleAssumption
    <2> QED BY <1>2, <2>2, <2>3, <2>4 DEF Publish
  <1>3. ASSUME NEW r \in Editors, ChangeFails(r) PROVE AnsweredMeansPublished'
    BY <1>3 DEF ChangeFails, AfterChangeError
  <1>4. ASSUME NEW r \in Editors, NEW c \in Calls, NEW refused \in BOOLEAN,
               BeginChange(r, c, refused)
        PROVE  AnsweredMeansPublished'
    BY <1>4 DEF BeginChange, First
  <1>5. CASE UNCHANGED roleEventsVars
    BY <1>5 DEF roleEventsVars
  <1> HIDE DEF RoleEventsTypeOK, Status, Ended, AnsweredMeansPublished
  <1> QED
    BY <1>1, <1>2, <1>3, <1>4, <1>5 DEF Handle

(* Requests that take turns at a row tell of it in order. *)
LEMMA TurnsStep ==
  ASSUME RoleEventsTypeOK, WrittenFirst, TurnsAreTold, [RoleEventsNext]_roleEventsVars
  PROVE  TurnsAreTold'
  <1> USE RoleSteps DEF RoleEventsTypeOK, Status, Ended
  <1>1. ASSUME NEW r \in Editors, Write(r) PROVE TurnsAreTold'
    <2> SUFFICES ASSUME NEW i \in Ids, Alone(i)'
                 PROVE  /\ \A q, s \in Busy(i)' : q = s
                        /\ \A q \in Busy(i)' : changePc'[q] = "publish" => result'[q] = roleRow'[i]
                        /\ (roleRow'[i] # NoRow /\ \A q \in Busy(i)' : changePc'[q] # "publish")
                             => Current(i)'
      BY DEF TurnsAreTold
    <2> DEFINE j == call[r].id
    <2>1. /\ changePc[r] = "write" /\ changePc' = [changePc EXCEPT ![r] = "publish"]
          /\ roleRow' = [roleRow EXCEPT ![j] = Written(r)]
          /\ result' = [result EXCEPT ![r] = Written(r)]
          /\ call' = call /\ events' = events /\ overlap' = overlap
      BY <1>1 DEF Write
    <2>2. Alone(i)
      BY <2>1 DEF Alone
    <2>3. /\ \A q, s \in Busy(i) : q = s
          /\ \A q \in Busy(i) : changePc[q] = "publish" => result[q] = roleRow[i]
          /\ (roleRow[i] # NoRow /\ \A q \in Busy(i) : changePc[q] # "publish") => Current(i)
      BY <2>2 DEF TurnsAreTold
    <2>4. Busy(i)' = Busy(i)
      BY <2>1 DEF Busy
    <2>5. CASE j = i
      <3>1. r \in Busy(i) /\ changePc'[r] = "publish"
        BY <2>1, <2>5 DEF Busy
      <3>2. result'[r] = roleRow'[i]
        BY <2>1, <2>5
      <3> QED BY <2>3, <2>4, <3>1, <3>2
    <2>6. CASE j # i
      <3>1. roleRow'[i] = roleRow[i]
        BY <2>1, <2>6
      <3>2. Current(i)' = Current(i)
        BY <2>1, <3>1 DEF Current
      <3>3. ASSUME NEW q \in Busy(i) PROVE changePc'[q] = changePc[q] /\ result'[q] = result[q]
        BY <2>1, <2>6 DEF Busy
      <3> QED BY <2>3, <2>4, <3>1, <3>2, <3>3
    <2> QED BY <2>5, <2>6
  <1>2. ASSUME NEW r \in Editors, Publish(r) PROVE TurnsAreTold'
    <2> SUFFICES ASSUME NEW i \in Ids, Alone(i)'
                 PROVE  /\ \A q, s \in Busy(i)' : q = s
                        /\ \A q \in Busy(i)' : changePc'[q] = "publish" => result'[q] = roleRow'[i]
                        /\ (roleRow'[i] # NoRow /\ \A q \in Busy(i)' : changePc'[q] # "publish")
                             => Current(i)'
      BY DEF TurnsAreTold
    <2> DEFINE j == call[r].id
    <2>1. /\ changePc[r] = "publish" /\ changePc' = [changePc EXCEPT ![r] = AfterSend(r)]
          /\ AfterSend(r) \in {"200", "204"}
          /\ events' = Append(events, <<j, result[r]>>)
          /\ call' = call /\ roleRow' = roleRow /\ result' = result /\ overlap' = overlap
      BY <1>2 DEF Publish, Message, AfterSend
    <2>2. Alone(i)
      BY <2>1 DEF Alone
    <2>3. /\ \A q, s \in Busy(i) : q = s
          /\ \A q \in Busy(i) : changePc[q] = "publish" => result[q] = roleRow[i]
          /\ (roleRow[i] # NoRow /\ \A q \in Busy(i) : changePc[q] # "publish") => Current(i)
      BY <2>2 DEF TurnsAreTold
    <2>4. Busy(i)' = Busy(i) \ {r}
      BY <2>1 DEF Busy
    <2>5. <<j, result[r]>> \in Ids \X Row /\ events \in Seq(Ids \X Row)
      BY <2>1 DEF WrittenFirst, Calls
    <2>6. /\ Len(events) \in Nat /\ Len(events') = Len(events) + 1
          /\ \A n \in 1 .. Len(events) : events'[n] = events[n]
          /\ events'[Len(events) + 1] = <<j, result[r]>>
      BY ONLY <2>1, <2>5, Appended
    <2>7. CASE j = i
      <3>1. r \in Busy(i)
        BY <2>1, <2>7 DEF Busy
      <3>2. Busy(i)' = {} /\ result[r] = roleRow'[i]
        BY <2>1, <2>3, <2>4, <3>1
      <3>3. Current(i)'
        BY ONLY <2>6, <2>7, <3>2 DEF Current
      <3> QED BY <3>2, <3>3
    <2>8. CASE j # i
      <3>1. r \notin Busy(i)
        BY <2>8 DEF Busy
      <3>2. Current(i) => Current(i)'
        <4> SUFFICES ASSUME Current(i) PROVE Current(i)'
          OBVIOUS
        <4>1. PICK n \in 1 .. Len(events) :
                /\ events[n] = <<i, roleRow[i]>>
                /\ \A m \in n + 1 .. Len(events) : events[m][1] # i
          BY DEF Current
        <4>2. events'[n] = <<i, roleRow'[i]>>
          BY <2>1, <2>6, <4>1
        <4>3. events'[Len(events) + 1][1] # i
          BY <2>6, <2>8
        <4>4. ASSUME NEW m \in n + 1 .. Len(events') PROVE events'[m][1] # i
          BY ONLY <2>6, <4>1, <4>3, <4>4
        <4>5. n \in 1 .. Len(events')
          BY ONLY <2>6, <4>1
        <4> QED BY <4>2, <4>4, <4>5 DEF Current
      <3>3. ASSUME NEW q \in Busy(i) PROVE changePc'[q] = changePc[q]
        BY <2>1, <3>1 DEF Busy
      <3> QED BY <2>1, <2>3, <2>4, <3>1, <3>2, <3>3
    <2> QED BY <2>7, <2>8
  <1>3. ASSUME NEW r \in Editors, ChangeFails(r) PROVE TurnsAreTold'
    <2> SUFFICES ASSUME NEW i \in Ids, Alone(i)'
                 PROVE  /\ \A q, s \in Busy(i)' : q = s
                        /\ \A q \in Busy(i)' : changePc'[q] = "publish" => result'[q] = roleRow'[i]
                        /\ (roleRow'[i] # NoRow /\ \A q \in Busy(i)' : changePc'[q] # "publish")
                             => Current(i)'
      BY DEF TurnsAreTold
    <2> DEFINE j == call[r].id
    <2>1. /\ changePc[r] \in {"write", "publish"} /\ changePc' = [changePc EXCEPT ![r] = "500"]
          /\ \/ roleRow' = roleRow \/ roleRow' = [roleRow EXCEPT ![j] = Written(r)]
          /\ call' = call /\ events' = events /\ result' = result /\ overlap' = overlap
      BY <1>3 DEF ChangeFails, AfterChangeError
    <2>2. j # i
      BY <2>1 DEF Alone
    <2>3. Alone(i)
      BY <2>1 DEF Alone
    <2>4. /\ \A q, s \in Busy(i) : q = s
          /\ \A q \in Busy(i) : changePc[q] = "publish" => result[q] = roleRow[i]
          /\ (roleRow[i] # NoRow /\ \A q \in Busy(i) : changePc[q] # "publish") => Current(i)
      BY <2>3 DEF TurnsAreTold
    <2>5. Busy(i)' = Busy(i) /\ r \notin Busy(i)
      BY <2>1, <2>2 DEF Busy
    <2>6. roleRow'[i] = roleRow[i]
      BY <2>1, <2>2
    <2>7. Current(i)' = Current(i)
      BY <2>1, <2>6 DEF Current
    <2>8. ASSUME NEW q \in Busy(i) PROVE changePc'[q] = changePc[q]
      BY <2>1, <2>5 DEF Busy
    <2> QED BY <2>1, <2>4, <2>5, <2>6, <2>7, <2>8
  <1>4. ASSUME NEW r \in Editors, NEW c \in Calls, NEW refused \in BOOLEAN,
               BeginChange(r, c, refused)
        PROVE  TurnsAreTold'
    <2> SUFFICES ASSUME NEW i \in Ids, Alone(i)'
                 PROVE  /\ \A q, s \in Busy(i)' : q = s
                        /\ \A q \in Busy(i)' : changePc'[q] = "publish" => result'[q] = roleRow'[i]
                        /\ (roleRow'[i] # NoRow /\ \A q \in Busy(i)' : changePc'[q] # "publish")
                             => Current(i)'
      BY DEF TurnsAreTold
    <2>1. /\ changePc[r] = "idle" /\ changePc' = [changePc EXCEPT ![r] = changePc'[r]]
          /\ call' = [call EXCEPT ![r] = c] /\ changePc'[r] \in {"403", "400", "write"}
          /\ roleRow' = roleRow /\ events' = events /\ result' = result
      BY <1>4 DEF BeginChange, First
    <2>2. Current(i)' = Current(i)
      BY <2>1 DEF Current
    <2>3. Alone(i)
      <3>1. i \notin overlap
        BY <1>4 DEF BeginChange, Alone
      <3>2. ASSUME NEW q \in Editors, changePc[q] = "500" PROVE call[q].id # i
        BY <2>1, <3>2 DEF Alone
      <3> QED BY <3>1, <3>2 DEF Alone
    <2>4. /\ \A q, s \in Busy(i) : q = s
          /\ \A q \in Busy(i) : changePc[q] = "publish" => result[q] = roleRow[i]
          /\ (roleRow[i] # NoRow /\ \A q \in Busy(i) : changePc[q] # "publish") => Current(i)
      BY <2>3 DEF TurnsAreTold
    <2>5. Busy(i)' = IF c.id = i /\ changePc'[r] = "write" THEN Busy(i) \cup {r} ELSE Busy(i)
      BY <2>1 DEF Busy
    <2>6. c.id = i /\ changePc'[r] = "write" => Busy(i) = {}
      <3>1. overlap' = overlap \cup {j \in {c.id} : changePc'[r] = "write" /\ Busy(j) # {}}
        BY <1>4 DEF BeginChange, First
      <3> QED BY <3>1 DEF Alone
    <2>7. r \notin Busy(i)
      BY <2>1 DEF Busy
    <2>8. ASSUME NEW q \in Busy(i) PROVE q \in Editors /\ changePc'[q] = changePc[q]
      BY <2>1, <2>7 DEF Busy
    <2>9. CASE c.id = i /\ changePc'[r] = "write"
      BY <2>1, <2>2, <2>4, <2>5, <2>6, <2>9
    <2>10. CASE ~(c.id = i /\ changePc'[r] = "write")
      BY <2>1, <2>2, <2>4, <2>5, <2>8, <2>10
    <2> QED BY <2>9, <2>10
  <1>5. CASE UNCHANGED roleEventsVars
    BY <1>5 DEF roleEventsVars, TurnsAreTold, Alone, Busy, Current
  <1> HIDE DEF RoleEventsTypeOK, Status, Ended
  <1> QED
    BY <1>1, <1>2, <1>3, <1>4, <1>5 DEF Handle

(* RoleEventsIInv is an invariant of roles and rules.                      *)
THEOREM RoleEventsInvariance == RoleEventsSpec => []RoleEventsIInv
  <1>1. RoleEventsInit => RoleEventsIInv
    <2> SUFFICES ASSUME RoleEventsInit PROVE RoleEventsIInv
      OBVIOUS
    <2>1. RoleEventsTypeOK
      BY RoleAssumption DEF RoleEventsInit, RoleEventsTypeOK, Ended, Status
    <2>2. WrittenFirst /\ AnsweredMeansPublished
      BY DEF RoleEventsInit, WrittenFirst, AnsweredMeansPublished
    <2>3. EventsAreStates
      BY DEF RoleEventsInit, EventsAreStates, Range
    <2>4. TurnsAreTold
      BY DEF RoleEventsInit, TurnsAreTold, Busy
    <2> QED BY <2>1, <2>2, <2>3, <2>4 DEF RoleEventsIInv
  <1>2. RoleEventsIInv /\ [RoleEventsNext]_roleEventsVars => RoleEventsIInv'
    BY RolesTypeStep, WrittenStep, StatesStep, AnsweredStep, TurnsStep DEF RoleEventsIInv
  <1> QED BY <1>1, <1>2, PTL DEF RoleEventsSpec

(* Every event is a state that the row had; a client that is told of       *)
(* success has the row and the event; and the last event about a row that  *)
(* nobody is at work on shows its state, unless two requests overlapped at *)
(* it or one failed.                                                       *)
THEOREM EventsTellTheRows == RoleEventsSpec => []RoleEventsInv
  <1>1. RoleEventsIInv => RoleEventsInv
    <2> SUFFICES ASSUME RoleEventsIInv PROVE RoleEventsInv
      OBVIOUS
    <2>1. LastEventIsCurrent
      BY DEF RoleEventsIInv, TurnsAreTold, Alone, Current, LastEventIsCurrent
    <2> QED BY <2>1 DEF RoleEventsIInv, RoleEventsInv
  <1> QED BY <1>1, RoleEventsInvariance, PTL

-----------------------------------------------------------------------------
(* The service                                                             *)

(* Each part of the composition behaves as its own specification says.     *)
THEOREM PartsBehave == Spec => AuthzSpec /\ MfaSpec /\ PaginationSpec /\ RoleEventsSpec
  <1> USE DEF OfAuthz, OfMfa, OfListing, OfRoles
  <1>1. Init => AuthzInit /\ MfaInit /\ PaginationInit /\ RoleEventsInit
    BY DEF Init
  <1>2. [Next]_iamVars => [AuthzNext]_authzVars
    BY DEF Next, iamVars
  <1>3. [Next]_iamVars => [MfaNext]_mfaVars
    BY DEF Next, iamVars
  <1>4. [Next]_iamVars => [PaginationNext]_paginationVars
    BY DEF Next, iamVars
  <1>5. [Next]_iamVars => [RoleEventsNext]_roleEventsVars
    BY DEF Next, iamVars
  <1> QED BY <1>1, <1>2, <1>3, <1>4, <1>5, PTL
          DEF Spec, AuthzSpec, MfaSpec, PaginationSpec, RoleEventsSpec

(* The invariants of all parts hold of the service.                        *)
THEOREM IamIsSafe == Spec => [](AuthzInv /\ MfaInv /\ PaginationInv /\ RoleEventsInv)
  BY PartsBehave, AuthzIsSafe, ChallengesAreSafe, WalksMissOnlyCursors, EventsTellTheRows, PTL
=============================================================================
