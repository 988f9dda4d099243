------------------------------- MODULE Authz -------------------------------
(***************************************************************************)
(* src/iam-service/src/middleware/authz.ts: a request is let through when  *)
(* a row of role_policies grants its path to a role of its subject and all *)
(* attribute_rules hold; the verdict is cached in Redis for 60 seconds.    *)
(*                                                                         *)
(* All requests share one casbin enforcer.  Each of them clears it, fills  *)
(* it and asks it with an await in between, so requests interleave inside. *)
(* casbin itself is external: its matcher's eval(r.obj) is taken as true,  *)
(* and clearPolicy keeps the links of a subject to its roles (both as in   *)
(* tests/authz.test.ts).                                                   *)
(***************************************************************************)
EXTENDS Integers

CONSTANTS
  Requests,    \* slots: requests in flight at once, each used again and again
  Keys,        \* cache keys: a token (jti) with a method and a path
  Sub, Roles,  \* per key, the subject and the roles its token names
  Path,        \* per key, its method and path
  Policies,    \* rows role_policies may hold: pairs of a role and a path
  TTL,         \* lifetime of a cached verdict, in ticks (60 seconds)
  None,
  MaxChanges,  \* bound: changes of the tables
  MaxFaults    \* bound: errors of Postgres and Redis

ASSUME AuthzAssumption ==
  /\ None \notin Requests \cup Keys \cup {"allow", "deny"}
  /\ TTL \in Nat \ {0} /\ MaxChanges \in Nat /\ MaxFaults \in Nat

AllRoles == UNION {Roles[k] : k \in Keys}
Subjects == {Sub[k] : k \in Keys}

VARIABLES
  rolePolicies,  \* table role_policies
  barred,        \* subjects some row of attribute_rules refuses
  enforcer,      \* the module's enforcer: the request that created it, or None
  policies,      \* per enforcer, its policy rules
  groups,        \* per enforcer, pairs of a subject and a role
  cache, ttl,    \* Redis: per key, the verdict and what is left of its life
  pc, key,       \* per request, where it stands and its cache key
  e,             \* per request, the enforcer it still uses, or None
  todo,          \* per request, the rules or roles it has still to add
  failed,        \* requests that met an error after the cache was read
  changes, faults

(* History, read by no action: what the tables ever held, and what other   *)
(* requests did to the enforcer under a request of a key.                  *)
VARIABLES
  rows,          \* rows that role_policies ever held
  admitted,      \* subjects that attribute_rules ever let pass
  refusable,     \* keys that the tables refused at some moment
  lent,          \* pairs of a key and a row of a role that is not its own:
                 \* another request added the row under a request of the key
  disturbed      \* requests another one cleared or replaced the enforcer under

tables == <<rolePolicies, barred, rows, admitted, refusable, changes>>
others == <<lent, disturbed>>
casbin == <<enforcer, policies, groups>>
redis  == <<cache, ttl>>
local  == <<key, e, todo>>
authzVars == <<tables, casbin, redis, local, pc, failed, faults, others>>

(* The roles that the tokens of a subject name.                            *)
SubjectRoles(s) == UNION {Roles[k] : k \in {j \in Keys : Sub[j] = s}}

(* The rows that grant key k: those of its path and the roles of its token.*)
Grants(k, table) == {p \in table : p[1] \in Roles[k] /\ p[2] = Path[k]}

(* The keys of its path whose tokens do not name the role of row p.        *)
Foreign(p) == {k \in Keys : p[2] = Path[k] /\ p[1] \notin Roles[k]}

(* The tables let key k pass.                                              *)
Entitled(k, table, refused) == Grants(k, table) # {} /\ Sub[k] \notin refused

RefusedKeys(table, refused) == {k \in Keys : ~Entitled(k, table, refused)}

AuthzInit ==
  /\ rolePolicies \in SUBSET Policies /\ barred \in SUBSET Subjects
  /\ rows = rolePolicies /\ admitted = Subjects \ barred
  /\ refusable = RefusedKeys(rolePolicies, barred) /\ lent = {} /\ disturbed = {}
  /\ enforcer = None
  /\ policies = [r \in Requests |-> {}] /\ groups = [r \in Requests |-> {}]
  /\ cache = [k \in Keys |-> None] /\ ttl = [k \in Keys |-> 0]
  /\ pc = [r \in Requests |-> "idle"] /\ key = [r \in Requests |-> None]
  /\ e = [r \in Requests |-> None] /\ todo = [r \in Requests |-> {}]
  /\ failed = {} /\ changes = 0 /\ faults = 0

Fault == faults < MaxFaults /\ faults' = faults + 1

Goto(r, p) == pc' = [pc EXCEPT ![r] = p]

(* The other requests between their reading of the rules and their verdict.*)
Overlapped(r) == {q \in Requests \ {r} : pc[q] \in {"new", "clear", "add", "group"}}

From(r, p, q) == pc[r] = p /\ Goto(r, q)

Cached(k, v) ==
  /\ cache' = [cache EXCEPT ![k] = v]
  /\ ttl' = [ttl EXCEPT ![k] = TTL]

-----------------------------------------------------------------------------
(* authzMiddleware, up to the cache                                        *)

(* A request without a bearer token, or whose token does not verify, is    *)
(* refused; one for /healthz passes.                                       *)
Begin(r) ==
  /\ pc[r] = "idle"
  /\ \/ \E p \in {"healthz", "refused"} : Goto(r, p) /\ UNCHANGED key
     \/ \E k \in Keys : key' = [key EXCEPT ![r] = k] /\ Goto(r, "get")
  /\ UNCHANGED <<tables, casbin, redis, e, todo, failed, faults, others>>

ReadCache(r) ==
  /\ pc[r] = "get"
  /\ Goto(r, CASE cache[key[r]] = "allow" -> "allowed"
               [] cache[key[r]] = "deny"  -> "denied"
               [] OTHER                   -> "find")
  /\ UNCHANGED <<tables, casbin, redis, local, failed, faults, others>>

(* An error of the cache is ignored.                                       *)
ReadCacheFails(r) ==
  /\ From(r, "get", "find") /\ Fault
  /\ UNCHANGED <<tables, casbin, redis, local, failed, others>>

-----------------------------------------------------------------------------
(* loadPolicies, getEnforcer                                               *)

FindPolicies(r) ==
  /\ pc[r] = "find"
  /\ todo' = [todo EXCEPT ![r] = {p \in rolePolicies : p[1] \in Roles[key[r]]}]
  /\ e' = [e EXCEPT ![r] = enforcer]
  /\ Goto(r, IF enforcer = None THEN "new" ELSE "clear")
  /\ UNCHANGED <<tables, casbin, redis, key, failed, faults, others>>

(* Requests that found no enforcer create one each; the last one stays.    *)
NewEnforcer(r) ==
  /\ From(r, "new", "clear")
  /\ enforcer' = r /\ e' = [e EXCEPT ![r] = r]
  /\ disturbed' = disturbed \cup Overlapped(r)
  /\ UNCHANGED <<tables, policies, groups, redis, key, todo, failed, faults, lent>>

Cleared_Keeps(r) == policies[e[r]]

Cleared(r) == {}

ClearPolicy(r) ==
  /\ From(r, "clear", "add")
  /\ policies' = [policies EXCEPT ![e[r]] = Cleared(r)]
  /\ disturbed' = disturbed \cup Overlapped(r)
  /\ UNCHANGED <<tables, enforcer, groups, redis, local, failed, faults, lent>>

AddPolicy(r) ==
  /\ pc[r] = "add"
  /\ \E p \in todo[r] :
       /\ policies' = [policies EXCEPT ![e[r]] = @ \cup {p}]
       /\ todo' = [todo EXCEPT ![r] = @ \ {p}]
       /\ lent' = lent \cup {<<k, p>> : k \in {key[q] : q \in Overlapped(r)} \cap Foreign(p)}
  /\ UNCHANGED <<tables, enforcer, groups, redis, pc, key, e, failed, faults, disturbed>>

-----------------------------------------------------------------------------
(* The verdict                                                             *)

(* The second getEnforcer may return another enforcer than the first.      *)
StartGroups(r) ==
  /\ todo[r] = {} /\ From(r, "add", "group")
  /\ e' = [e EXCEPT ![r] = enforcer]
  /\ todo' = [todo EXCEPT ![r] = Roles[key[r]]]
  /\ UNCHANGED <<tables, casbin, redis, key, failed, faults, others>>

AddGroupingPolicy(r) ==
  /\ pc[r] = "group"
  /\ \E x \in todo[r] :
       /\ groups' = [groups EXCEPT ![e[r]] = @ \cup {<<Sub[key[r]], x>>}]
       /\ todo' = [todo EXCEPT ![r] = @ \ {x}]
  /\ UNCHANGED <<tables, enforcer, policies, redis, pc, key, e, failed, faults, others>>

Matches(r) ==
  \E p \in policies[e[r]] :
    p[2] = Path[key[r]] /\ <<Sub[key[r]], p[1]>> \in groups[e[r]]

RolePassed == "abac"

Enforce(r) ==
  /\ todo[r] = {} /\ From(r, "group", IF Matches(r) THEN RolePassed ELSE "deny")
  /\ e' = [e EXCEPT ![r] = None] /\ disturbed' = disturbed \ {r}
  /\ UNCHANGED <<tables, casbin, redis, key, todo, failed, faults, lent>>

CheckAbacRules(r) ==
  /\ From(r, "abac", IF Sub[key[r]] \in barred THEN "deny" ELSE "allow")
  /\ UNCHANGED <<tables, casbin, redis, local, failed, faults, others>>

SetCache(r) ==
  /\ \/ From(r, "allow", "allowed")
     \/ From(r, "deny", "denied")
  /\ Cached(key[r], pc[r])
  /\ UNCHANGED <<tables, casbin, local, failed, faults, others>>

AfterError == "catch"

(* Postgres fails, or Redis does when the verdict is stored: perhaps after *)
(* it took effect.                                                         *)
Fails(r) ==
  /\ \/ pc[r] \in {"find", "abac"} /\ UNCHANGED redis
     \/ pc[r] \in {"allow", "deny"} /\ (Cached(key[r], pc[r]) \/ UNCHANGED redis)
  /\ Goto(r, AfterError) /\ Fault
  /\ failed' = failed \cup {r}
  /\ UNCHANGED <<tables, casbin, local, others>>

(* The handler stores "deny" and ignores an error of that.                 *)
Catch(r) ==
  /\ From(r, "catch", "denied")
  /\ \/ Cached(key[r], "deny") /\ UNCHANGED faults
     \/ Fault /\ UNCHANGED redis
  /\ UNCHANGED <<tables, casbin, local, failed, others>>

Answered == {"healthz", "refused", "allowed", "denied"}

(* The answer is out and the slot takes another request.                   *)
End(r) ==
  /\ pc[r] \in Answered /\ Goto(r, "idle")
  /\ key' = [key EXCEPT ![r] = None]
  /\ failed' = failed \ {r}
  /\ UNCHANGED <<tables, casbin, redis, e, todo, faults, others>>

-----------------------------------------------------------------------------
(* The tables and time                                                     *)

Change ==
  /\ changes < MaxChanges /\ changes' = changes + 1
  /\ \/ \E p \in Policies :
          /\ rolePolicies' \in {rolePolicies \cup {p}, rolePolicies \ {p}} \ {rolePolicies}
          /\ UNCHANGED barred
     \/ \E s \in Subjects :
          /\ barred' \in {barred \cup {s}, barred \ {s}} \ {barred}
          /\ UNCHANGED rolePolicies
  /\ rows' = rows \cup rolePolicies'
  /\ refusable' = refusable \cup RefusedKeys(rolePolicies', barred')
  /\ admitted' = admitted \cup (Subjects \ barred')
  /\ UNCHANGED <<casbin, redis, local, pc, failed, faults, others>>

Tick ==
  /\ \E k \in Keys : ttl[k] > 0
  /\ ttl' = [k \in Keys |-> IF ttl[k] = 0 THEN 0 ELSE ttl[k] - 1]
  /\ cache' = [k \in Keys |-> IF ttl'[k] = 0 THEN None ELSE cache[k]]
  /\ UNCHANGED <<tables, casbin, local, pc, failed, faults, others>>

-----------------------------------------------------------------------------
Step(r) ==
  \/ ReadCache(r) \/ ReadCacheFails(r) \/ FindPolicies(r) \/ NewEnforcer(r)
  \/ ClearPolicy(r) \/ AddPolicy(r) \/ StartGroups(r) \/ AddGroupingPolicy(r)
  \/ Enforce(r) \/ CheckAbacRules(r) \/ SetCache(r) \/ Fails(r) \/ Catch(r) \/ End(r)

AuthzNext == Change \/ Tick \/ \E r \in Requests : Begin(r) \/ Step(r)

AuthzSpec == AuthzInit /\ [][AuthzNext]_authzVars

-----------------------------------------------------------------------------
(* Every variable has its type; a cached verdict has a life left.          *)
AuthzTypeOK ==
  /\ rolePolicies \in SUBSET Policies /\ barred \in SUBSET Subjects
  /\ enforcer \in Requests \cup {None}
  /\ policies \in [Requests -> SUBSET Policies]
  /\ groups \in [Requests -> SUBSET (Subjects \X AllRoles)]
  /\ cache \in [Keys -> {None, "allow", "deny"}] /\ ttl \in [Keys -> 0 .. TTL]
  /\ \A k \in Keys : cache[k] = None <=> ttl[k] = 0
  /\ pc \in [Requests -> Answered \cup {"idle", "get", "find", "new", "clear", "add", "group",
                                        "abac", "allow", "deny", "catch"}]
  /\ key \in [Requests -> Keys \cup {None}] /\ e \in [Requests -> Requests \cup {None}]
  /\ todo \in [Requests -> (SUBSET Policies) \cup (SUBSET AllRoles)]
  /\ failed \in SUBSET Requests /\ disturbed \in SUBSET Requests
  /\ rows \in SUBSET Policies /\ admitted \in SUBSET Subjects
  /\ refusable \in SUBSET Keys /\ lent \in SUBSET (Keys \X Policies)
  /\ changes \in 0 .. MaxChanges /\ faults \in 0 .. MaxFaults

(* Key k was lent a row: its own roles name it not, but another token of   *)
(* its subject does, an enforcer holds that link, and another request      *)
(* added the row between the load and the verdict of a request of k.       *)
Borrowed(k) ==
  \E p \in rows, j \in Keys :
    /\ p[2] = Path[k] /\ <<k, p>> \in lent
    /\ Sub[j] = Sub[k] /\ p[1] \in Roles[j] \ Roles[k]
    /\ \E r \in Requests : <<Sub[k], p[1]>> \in groups[r]

(* Both tables have let key k pass, each at some moment: they are read     *)
(* with awaits between, so no one moment need have done so.                *)
MayPass(k) == (Grants(k, rows) # {} \/ Borrowed(k)) /\ Sub[k] \in admitted

(* A request gets through, or an allow is cached, only for a token with a  *)
(* role of its own that some row granted, and a subject that the attribute *)
(* rules let pass.  The one exception the shared enforcer makes            *)
(* (lines 46-55, 101-105): a role that stayed linked from another token of *)
(* the subject, on a row that a request overlapping this one loaded.       *)
AllowedWasGranted ==
  /\ \A r \in Requests : pc[r] = "allowed" => MayPass(key[r])
  /\ \A k \in Keys : cache[k] = "allow" => MayPass(k)

(* A request whose verdict is due finds no rule that lets it pass only if  *)
(* the tables refused its key at some moment, or if another request        *)
(* cleared or replaced the enforcer since it read the rules (lines 39-44,  *)
(* 51, 101-110): whoever the tables let pass is not refused, and his       *)
(* refusal not cached, by a request that overlaps with none.               *)
RefusedForAReason ==
  \A r \in Requests :
    pc[r] = "group" /\ todo[r] = {} /\ ~Matches(r) => key[r] \in refusable \/ r \in disturbed

(* A request that met an error of Postgres, or of Redis when it stored its *)
(* verdict, does not get through (lines 119-123).                          *)
FailsClosed == \A r \in failed : pc[r] # "allowed"

(* Once the tables refuse every token of a subject a path for good, its    *)
(* requests are refused for good: neither a cached verdict nor rules       *)
(* another request adds from an old reading keep it alive (lines 51-53,    *)
(* 87-94, 117).                                                            *)
RefusalTakesEffect ==
  \A k \in Keys :
    <>[](Sub[k] \in barred \/ \A p \in rolePolicies : p[1] \notin SubjectRoles(Sub[k])
                                                     \/ p[2] # Path[k])
      => <>[](\A r \in Requests : ~(pc[r] = "allowed" /\ key[r] = k))

(* Every request is answered.                                              *)
EveryRequestAnswered ==
  \A r \in Requests : pc[r] # "idle" ~> pc[r] \in Answered

(* Who is let through and who is refused, whatever other requests do to    *)
(* the enforcer and whichever store fails (lines 67-123).                  *)
AuthzInv == AuthzTypeOK /\ AllowedWasGranted /\ RefusedForAReason /\ FailsClosed
=============================================================================
