---------------------------- MODULE GatewayProofs ----------------------------
(***************************************************************************)
(* Theorems about the parts of the API gateway that MCGateway puts side by *)
(* side, for every set of routes, requests, services and sockets and every *)
(* bound.  Each part has an inductive invariant of its own: ProxyIInv,     *)
(* RequestIInv and SocketIInv.                                             *)
(***************************************************************************)
EXTENDS MCGateway, FiniteSetTheorems, TLAPS

-----------------------------------------------------------------------------
(* The proxies                                                             *)

(* A breaker that is not closed has seen a failure of its own upstream.    *)
OpenedByItsOwn == \A q \in Routes : breaker[q] # "closed" => q \in blamed

(* The calls of route q that are under way.                                *)
UnderWay(q) == {r \in Requests : call[r] # None /\ RouteOf(r) = q}

(* A failure is of a call that was counted in this window, or that was     *)
(* under way when the window began.                                        *)
FailuresAreCalls ==
  \A q \in Routes :
    failures[q] + Cardinality(UnderWay(q)) <= fires[q] + Cardinality(Requests)

(* Failures are counted in numbers; a call is of a route.                  *)
ProxyTypes ==
  /\ failures \in [Routes -> Nat]
  /\ DOMAIN call = Requests
  /\ \A r \in Requests : call[r] # None => RouteOf(r) \in Routes /\ RouteOf(r) \in Configured

ProxyIInv ==
  GatewayProxyTypeOK /\ ProxyTypes /\ RoutesAreIsolated /\ OpenedByItsOwn /\ FailuresAreCalls

(* Calls under way are finitely many, and one more or less counts as one.  *)
LEMMA UnderWayIsFinite ==
  \A q : IsFiniteSet(UnderWay(q)) /\ Cardinality(UnderWay(q)) \in Nat
         /\ Cardinality(UnderWay(q)) <= Cardinality(Requests) /\ Cardinality(Requests) \in Nat
  <1> SUFFICES ASSUME NEW q
               PROVE  IsFiniteSet(UnderWay(q)) /\ Cardinality(UnderWay(q)) \in Nat
                      /\ Cardinality(UnderWay(q)) <= Cardinality(Requests)
                      /\ Cardinality(Requests) \in Nat
    OBVIOUS
  <1>1. UnderWay(q) \in SUBSET Requests
    BY DEF UnderWay
  <1> QED BY <1>1, GatewayProxyAssumption, FS_Subset, FS_CardinalityType

(* One call ends: one less is under way on its route.                      *)
LEMMA CallEnds ==
  ASSUME ProxyTypes, NEW r \in Requests, call[r] # None, Ends(r), NEW q0, q0 = RouteOf(r)
  PROVE  /\ Cardinality(UnderWay(q0)') = Cardinality(UnderWay(q0)) - 1
         /\ \A q : q # q0 => UnderWay(q)' = UnderWay(q)
  <1>1. r \in UnderWay(q0)
    BY DEF UnderWay
  <1>2. call' = [call EXCEPT ![r] = None] /\ DOMAIN call = Requests
    BY DEF Ends, ProxyTypes
  <1>3. ASSUME NEW q PROVE UnderWay(q)' = UnderWay(q) \ {r}
    BY <1>2 DEF UnderWay, RouteOf
  <1>4. Cardinality(UnderWay(q0) \ {r}) = Cardinality(UnderWay(q0)) - 1
    BY <1>1, UnderWayIsFinite, FS_RemoveElement
  <1>5. ASSUME NEW q, q # q0 PROVE r \notin UnderWay(q)
    BY <1>5 DEF UnderWay
  <1> QED BY <1>3, <1>4, <1>5

(* Every step keeps counts and calls what they are. *)
LEMMA ProxyTypesStep ==
  ASSUME GatewayProxyTypeOK, ProxyTypes, [GatewayProxyNext]_gatewayProxyVars
  PROVE  ProxyTypes'
  <1> USE GatewayProxyAssumption DEF GatewayProxyTypeOK, ProxyTypes, RouteOf, stats, history
  <1>1. CASE Upstream
    BY <1>1 DEF Upstream
  <1>2. ASSUME NEW q \in Routes, ResetTimeout(q) PROVE ProxyTypes'
    BY <1>2 DEF ResetTimeout
  <1>3. ASSUME NEW q \in Routes, Roll(q) PROVE ProxyTypes'
    BY <1>3 DEF Roll, Rolled
  <1>4. ASSUME NEW r \in Requests, NEW q \in Routes, NEW x \in Endpoints[q], Fire(r, q, x)
        PROVE  ProxyTypes'
    BY <1>4 DEF Fire, BreakerOf, Admits
  <1>5. ASSUME NEW r \in Requests, Passed(r) PROVE ProxyTypes'
    BY <1>5 DEF Passed, BreakerOf, Succeeds, Ends
  <1>6. ASSUME NEW r \in Requests, Misfits(r) PROVE ProxyTypes'
    BY <1>6 DEF Misfits, BreakerOf, Fails, Ends, Opens
  <1>7. ASSUME NEW r \in Requests, UpstreamFails(r) PROVE ProxyTypes'
    BY <1>7 DEF UpstreamFails, BreakerOf, Fails, Ends, Opens
  <1>8. ASSUME NEW q \in Routes, NoUrl(q) PROVE ProxyTypes'
    BY <1>8 DEF NoUrl, RoutesInFlight
  <1>9. CASE UNCHANGED gatewayProxyVars
    BY <1>9 DEF gatewayProxyVars
  <1> HIDE DEF GatewayProxyTypeOK, ProxyTypes, RouteOf
  <1> QED
    BY <1>1, <1>2, <1>3, <1>4, <1>5, <1>6, <1>7, <1>8, <1>9
       DEF GatewayProxyNext, Step, Arrives

(* No failure without a call. *)
LEMMA FailuresStep ==
  ASSUME GatewayProxyTypeOK, ProxyTypes, FailuresAreCalls, [GatewayProxyNext]_gatewayProxyVars
  PROVE  FailuresAreCalls'
  <1> USE  DEF FailuresAreCalls, stats, history
  <1>1. CASE Upstream
    <2>1. \A p \in Routes : UnderWay(p)' = UnderWay(p)
      BY <1>1 DEF Upstream, UnderWay, RouteOf, ProxyTypes
    <2> QED BY <1>1, <2>1 DEF Upstream
  <1>2. ASSUME NEW q \in Routes, ResetTimeout(q) PROVE FailuresAreCalls'
    <2>1. \A p \in Routes : UnderWay(p)' = UnderWay(p)
      BY <1>2 DEF ResetTimeout, UnderWay, RouteOf, ProxyTypes
    <2> QED BY <1>2, <2>1 DEF ResetTimeout
  <1>3. ASSUME NEW q \in Routes, Roll(q) PROVE FailuresAreCalls'
    <2>0. /\ \A p \in Routes : UnderWay(p)' = UnderWay(p)
          /\ fires' = [fires EXCEPT ![q] = 0] /\ failures' = [failures EXCEPT ![q] = 0]
      BY <1>3 DEF Roll, Rolled, UnderWay, RouteOf
    <2>1. fires \in [Routes -> Nat] /\ failures \in [Routes -> Nat]
      BY DEF GatewayProxyTypeOK, ProxyTypes
    <2>2. ASSUME NEW p \in Routes
          PROVE  failures'[p] + Cardinality(UnderWay(p)') <= fires'[p] + Cardinality(Requests)
      <3>1. failures[p] + Cardinality(UnderWay(p)) <= fires[p] + Cardinality(Requests)
        OBVIOUS
      <3> QED BY <2>0, <2>1, <3>1, UnderWayIsFinite
    <2> QED BY <2>2
  <1>4. ASSUME NEW r \in Requests, NEW q \in Routes, NEW x \in Endpoints[q], Fire(r, q, x)
        PROVE  FailuresAreCalls'
    <2> SUFFICES ASSUME NEW p \in Routes
                 PROVE  failures'[p] + Cardinality(UnderWay(p)')
                          <= fires'[p] + Cardinality(Requests)
      OBVIOUS
    <2>1. /\ call[r] = None /\ failures' = failures /\ fires' = [fires EXCEPT ![q] = fires[q] + 1]
          /\ call' = [call EXCEPT ![r] = <<q, x>>] \/ call' = call
      BY <1>4 DEF Fire, BreakerOf
    <2>2. /\ failures[p] \in Nat /\ fires[p] \in Nat
          /\ DOMAIN call = Requests /\ fires \in [Routes -> Nat]
      BY DEF GatewayProxyTypeOK, ProxyTypes
    <2>3. failures[p] + Cardinality(UnderWay(p)) <= fires[p] + Cardinality(Requests)
      OBVIOUS
    <2>4. fires[p] <= fires'[p] /\ fires'[p] \in Nat /\ (p = q => fires'[p] = fires[p] + 1)
      BY <2>1, <2>2
    <2>5. CASE call' = call
      <3>1. UnderWay(p)' = UnderWay(p)
        BY <2>5 DEF UnderWay, RouteOf
      <3> QED BY <2>1, <2>2, <2>3, <2>4, <3>1, UnderWayIsFinite
    <2>6. CASE p # q /\ call' = [call EXCEPT ![r] = <<q, x>>]
      <3>1. UnderWay(p)' = UnderWay(p)
        BY <2>1, <2>2, <2>6 DEF UnderWay, RouteOf
      <3> QED BY <2>1, <2>2, <2>3, <2>4, <3>1, UnderWayIsFinite
    <2>7. CASE p = q /\ call' = [call EXCEPT ![r] = <<q, x>>]
      <3>1. UnderWay(p)' \in SUBSET (UnderWay(p) \cup {r})
        BY <2>1, <2>2, <2>7 DEF UnderWay, RouteOf
      <3>2. /\ IsFiniteSet(UnderWay(p) \cup {r})
            /\ Cardinality(UnderWay(p) \cup {r}) <= Cardinality(UnderWay(p)) + 1
            /\ Cardinality(UnderWay(p) \cup {r}) \in Nat
        <4>1. /\ IsFiniteSet(UnderWay(p)) /\ Cardinality(UnderWay(p)) \in Nat
          BY UnderWayIsFinite
        <4>2. /\ IsFiniteSet(UnderWay(p) \cup {r})
              /\ Cardinality(UnderWay(p) \cup {r}) =
                   IF r \in UnderWay(p) THEN Cardinality(UnderWay(p))
                                        ELSE Cardinality(UnderWay(p)) + 1
          BY <4>1, FS_AddElement
        <4> QED BY <4>1, <4>2
      <3>3. /\ Cardinality(UnderWay(p)') <= Cardinality(UnderWay(p) \cup {r})
            /\ Cardinality(UnderWay(p)') \in Nat
        BY <3>1, <3>2, FS_Subset, FS_CardinalityType
      <3> QED BY <2>1, <2>2, <2>3, <2>4, <2>7, <3>2, <3>3, UnderWayIsFinite
    <2> QED BY <2>1, <2>5, <2>6, <2>7
  <1>5. ASSUME NEW r \in Requests, Passed(r) PROVE FailuresAreCalls'
    <2>0. PICK q0 \in Routes : q0 = RouteOf(r)
      BY <1>5 DEF Passed, ProxyTypes
    <2>1. /\ Cardinality(UnderWay(q0)') = Cardinality(UnderWay(q0)) - 1
          /\ \A p : p # q0 => UnderWay(p)' = UnderWay(p)
      <3>1. call[r] # None /\ Ends(r)
        BY <1>5 DEF Passed
      <3> QED BY ONLY ProxyTypes, r \in Requests, <2>0, <3>1, CallEnds
    <2>2. fires' = fires /\ failures' = failures
      BY <1>5, <2>0 DEF Passed
    <2>3. fires \in [Routes -> Nat] /\ failures \in [Routes -> Nat]
      BY DEF GatewayProxyTypeOK, ProxyTypes
    <2>4. ASSUME NEW p \in Routes
          PROVE  failures'[p] + Cardinality(UnderWay(p)') <= fires'[p] + Cardinality(Requests)
      <3>1. failures[p] + Cardinality(UnderWay(p)) <= fires[p] + Cardinality(Requests)
        OBVIOUS
      <3> QED BY <2>1, <2>2, <2>3, <3>1, UnderWayIsFinite
    <2> QED BY <2>4
  <1>6. ASSUME NEW r \in Requests, Misfits(r) PROVE FailuresAreCalls'
    <2>0. PICK q0 \in Routes : q0 = RouteOf(r)
      BY <1>6 DEF Misfits, Fails, ProxyTypes
    <2>1. /\ Cardinality(UnderWay(q0)') = Cardinality(UnderWay(q0)) - 1
          /\ \A p : p # q0 => UnderWay(p)' = UnderWay(p)
      <3>1. call[r] # None /\ Ends(r)
        BY <1>6 DEF Misfits, Fails
      <3> QED BY ONLY ProxyTypes, r \in Requests, <2>0, <3>1, CallEnds
    <2>2. fires' = fires /\ failures' = [failures EXCEPT ![q0] = failures[q0] + 1]
      BY <1>6, <2>0 DEF Misfits, Fails, BreakerOf
    <2>3. fires \in [Routes -> Nat] /\ failures \in [Routes -> Nat]
      BY DEF GatewayProxyTypeOK, ProxyTypes
    <2>4. ASSUME NEW p \in Routes
          PROVE  failures'[p] + Cardinality(UnderWay(p)') <= fires'[p] + Cardinality(Requests)
      <3>1. failures[p] + Cardinality(UnderWay(p)) <= fires[p] + Cardinality(Requests)
        OBVIOUS
      <3> QED BY <2>1, <2>2, <2>3, <3>1, UnderWayIsFinite
    <2> QED BY <2>4
  <1>7. ASSUME NEW r \in Requests, UpstreamFails(r) PROVE FailuresAreCalls'
    <2>0. PICK q0 \in Routes : q0 = RouteOf(r)
      BY <1>7 DEF UpstreamFails, Fails, ProxyTypes
    <2>1. /\ Cardinality(UnderWay(q0)') = Cardinality(UnderWay(q0)) - 1
          /\ \A p : p # q0 => UnderWay(p)' = UnderWay(p)
      <3>1. call[r] # None /\ Ends(r)
        BY <1>7 DEF UpstreamFails, Fails
      <3> QED BY ONLY ProxyTypes, r \in Requests, <2>0, <3>1, CallEnds
    <2>2. fires' = fires /\ failures' = [failures EXCEPT ![q0] = failures[q0] + 1]
      BY <1>7, <2>0 DEF UpstreamFails, Fails, BreakerOf
    <2>3. fires \in [Routes -> Nat] /\ failures \in [Routes -> Nat]
      BY DEF GatewayProxyTypeOK, ProxyTypes
    <2>4. ASSUME NEW p \in Routes
          PROVE  failures'[p] + Cardinality(UnderWay(p)') <= fires'[p] + Cardinality(Requests)
      <3>1. failures[p] + Cardinality(UnderWay(p)) <= fires[p] + Cardinality(Requests)
        OBVIOUS
      <3> QED BY <2>1, <2>2, <2>3, <3>1, UnderWayIsFinite
    <2> QED BY <2>4
  <1>8. ASSUME NEW q \in Routes, NoUrl(q) PROVE FailuresAreCalls'
    <2>1. ASSUME NEW p \in Routes PROVE Cardinality(UnderWay(p)') = 0
      <3>1. UnderWay(p)' = {}
        BY <1>8 DEF NoUrl, UnderWay
      <3> QED BY <3>1, FS_EmptySet
    <2> QED BY <1>8, <2>1, UnderWayIsFinite DEF NoUrl
  <1>9. CASE UNCHANGED gatewayProxyVars
    BY <1>9 DEF gatewayProxyVars, UnderWay, RouteOf
  <1> HIDE DEF FailuresAreCalls
  <1> QED
    BY <1>1, <1>2, <1>3, <1>4, <1>5, <1>6, <1>7, <1>8, <1>9
       DEF GatewayProxyNext, Step, Arrives

(* A breaker opens for a failure of its own. *)
LEMMA OpenedStep ==
  ASSUME GatewayProxyTypeOK, ProxyTypes, OpenedByItsOwn, [GatewayProxyNext]_gatewayProxyVars
  PROVE  OpenedByItsOwn'
  <1> USE GatewayProxyAssumption DEF GatewayProxyTypeOK, OpenedByItsOwn, ProxyTypes, stats,
         history
  <1>1. CASE Upstream
    BY <1>1 DEF Upstream
  <1>2. ASSUME NEW q \in Routes, ResetTimeout(q) PROVE OpenedByItsOwn'
    BY <1>2 DEF ResetTimeout
  <1>3. ASSUME NEW q \in Routes, Roll(q) PROVE OpenedByItsOwn'
    BY <1>3 DEF Roll, Rolled
  <1>4. ASSUME NEW r \in Requests, NEW q \in Routes, NEW x \in Endpoints[q], Fire(r, q, x)
        PROVE  OpenedByItsOwn'
    BY <1>4 DEF Fire, BreakerOf, Admits
  <1>5. ASSUME NEW r \in Requests, Passed(r) PROVE OpenedByItsOwn'
    BY <1>5 DEF Passed, BreakerOf, Succeeds, Ends
  <1>6. ASSUME NEW r \in Requests, Misfits(r) PROVE OpenedByItsOwn'
    BY <1>6 DEF Misfits, BreakerOf, Fails, Ends, Opens
  <1>7. ASSUME NEW r \in Requests, UpstreamFails(r) PROVE OpenedByItsOwn'
    BY <1>7 DEF UpstreamFails, BreakerOf, Fails, Ends, Opens
  <1>8. ASSUME NEW q \in Routes, NoUrl(q) PROVE OpenedByItsOwn'
    BY <1>8 DEF NoUrl, RoutesInFlight
  <1>9. CASE UNCHANGED gatewayProxyVars
    BY <1>9 DEF gatewayProxyVars
  <1> HIDE DEF GatewayProxyTypeOK, OpenedByItsOwn, ProxyTypes
  <1> QED
    BY <1>1, <1>2, <1>3, <1>4, <1>5, <1>6, <1>7, <1>8, <1>9
       DEF GatewayProxyNext, Step, Arrives

(* A route is denied after a failure of its own. *)
LEMMA IsolatedStep ==
  ASSUME GatewayProxyTypeOK, OpenedByItsOwn, RoutesAreIsolated,
         [GatewayProxyNext]_gatewayProxyVars
  PROVE  RoutesAreIsolated'
  <1> USE GatewayProxyAssumption DEF GatewayProxyTypeOK, RoutesAreIsolated, OpenedByItsOwn,
         stats, history
  <1>1. CASE Upstream
    BY <1>1 DEF Upstream
  <1>2. ASSUME NEW q \in Routes, ResetTimeout(q) PROVE RoutesAreIsolated'
    BY <1>2 DEF ResetTimeout
  <1>3. ASSUME NEW q \in Routes, Roll(q) PROVE RoutesAreIsolated'
    BY <1>3 DEF Roll, Rolled
  <1>4. ASSUME NEW r \in Requests, NEW q \in Routes, NEW x \in Endpoints[q], Fire(r, q, x)
        PROVE  RoutesAreIsolated'
    BY <1>4 DEF Fire, BreakerOf, Admits
  <1>5. ASSUME NEW r \in Requests, Passed(r) PROVE RoutesAreIsolated'
    BY <1>5 DEF Passed, BreakerOf, Succeeds, Ends
  <1>6. ASSUME NEW r \in Requests, Misfits(r) PROVE RoutesAreIsolated'
    BY <1>6 DEF Misfits, BreakerOf, Fails, Ends, Opens
  <1>7. ASSUME NEW r \in Requests, UpstreamFails(r) PROVE RoutesAreIsolated'
    BY <1>7 DEF UpstreamFails, BreakerOf, Fails, Ends, Opens
  <1>8. ASSUME NEW q \in Routes, NoUrl(q) PROVE RoutesAreIsolated'
    BY <1>8 DEF NoUrl, RoutesInFlight
  <1>9. CASE UNCHANGED gatewayProxyVars
    BY <1>9 DEF gatewayProxyVars
  <1> HIDE DEF GatewayProxyTypeOK, RoutesAreIsolated, OpenedByItsOwn
  <1> QED
    BY <1>1, <1>2, <1>3, <1>4, <1>5, <1>6, <1>7, <1>8, <1>9
       DEF GatewayProxyNext, Step, Arrives

(* Every step keeps the types. *)
LEMMA ProxyTypeStep ==
  ASSUME GatewayProxyTypeOK, ProxyTypes, ProxyTypes', FailuresAreCalls',
         [GatewayProxyNext]_gatewayProxyVars
  PROVE  GatewayProxyTypeOK'
  <1> USE GatewayProxyAssumption DEF GatewayProxyTypeOK, ProxyTypes, RouteOf, stats, history
  <1>0. ASSUME fires' \in [Routes -> 0 .. MaxFires]
        PROVE  failures' \in [Routes -> 0 .. MaxFires + Cardinality(Requests)]
    <2>1. ASSUME NEW q \in Routes PROVE failures'[q] \in 0 .. MaxFires + Cardinality(Requests)
      <3>1. failures'[q] \in Nat /\ fires'[q] \in 0 .. MaxFires /\ MaxFires \in Nat
        BY <1>0
      <3>2. failures'[q] + Cardinality(UnderWay(q)') <= fires'[q] + Cardinality(Requests)
        BY DEF FailuresAreCalls
      <3>3. UnderWay(q)' \in SUBSET Requests
        BY DEF UnderWay
      <3>4. Cardinality(UnderWay(q)') \in Nat /\ Cardinality(Requests) \in Nat
        BY <3>3, FS_Subset, FS_CardinalityType
      <3> QED BY <3>1, <3>2, <3>4
    <2> QED BY <2>1
  <1>1. CASE Upstream
    BY <1>1 DEF Upstream
  <1>2. ASSUME NEW q \in Routes, ResetTimeout(q) PROVE GatewayProxyTypeOK'
    BY <1>2 DEF ResetTimeout
  <1>3. ASSUME NEW q \in Routes, Roll(q) PROVE GatewayProxyTypeOK'
    BY <1>3, <1>0 DEF Roll, Rolled
  <1>4. ASSUME NEW r \in Requests, NEW q \in Routes, NEW x \in Endpoints[q], Fire(r, q, x)
        PROVE  GatewayProxyTypeOK'
    BY <1>4, <1>0 DEF Fire, BreakerOf, Admits
  <1>5. ASSUME NEW r \in Requests, Passed(r) PROVE GatewayProxyTypeOK'
    BY <1>5 DEF Passed, BreakerOf, Succeeds, Ends
  <1>6. ASSUME NEW r \in Requests, Misfits(r) PROVE GatewayProxyTypeOK'
    BY <1>6, <1>0 DEF Misfits, BreakerOf, Fails, Ends, Opens
  <1>7. ASSUME NEW r \in Requests, UpstreamFails(r) PROVE GatewayProxyTypeOK'
    BY <1>7, <1>0 DEF UpstreamFails, BreakerOf, Fails, Ends, Opens
  <1>8. ASSUME NEW q \in Routes, NoUrl(q) PROVE GatewayProxyTypeOK'
    <2>1. \A p \in RoutesInFlight : p \in Routes
      BY DEF RoutesInFlight
    <2>2. 0 \in 0 .. MaxFires /\ 0 \in 0 .. MaxFires + Cardinality(Requests)
      BY FS_CardinalityType
    <2> QED BY <1>8, <2>1, <2>2 DEF NoUrl
  <1>9. CASE UNCHANGED gatewayProxyVars
    BY <1>9 DEF gatewayProxyVars
  <1> HIDE DEF GatewayProxyTypeOK, ProxyTypes
  <1> QED
    BY <1>1, <1>2, <1>3, <1>4, <1>5, <1>6, <1>7, <1>8, <1>9
       DEF GatewayProxyNext, Step, Arrives

(* ProxyIInv is an invariant of the proxies.                               *)
THEOREM ProxyInvariance == GatewayProxySpec => []ProxyIInv
  <1>1. GatewayProxyInit => ProxyIInv
    <2> SUFFICES ASSUME GatewayProxyInit PROVE ProxyIInv
      OBVIOUS
    <2>1. Cardinality(Requests) \in Nat
      BY GatewayProxyAssumption, FS_CardinalityType
    <2>2. ASSUME NEW q \in Routes PROVE Cardinality(UnderWay(q)) = 0
      <3>1. UnderWay(q) = {}
        BY DEF UnderWay, GatewayProxyInit
      <3> QED BY <3>1, FS_EmptySet
    <2>3. FailuresAreCalls
      BY <2>1, <2>2 DEF FailuresAreCalls, GatewayProxyInit
    <2>4. GatewayProxyTypeOK /\ ProxyTypes /\ RoutesAreIsolated /\ OpenedByItsOwn
      BY <2>1, GatewayProxyAssumption
         DEF GatewayProxyInit, GatewayProxyTypeOK, ProxyTypes, RoutesAreIsolated, OpenedByItsOwn
    <2> QED BY <2>3, <2>4 DEF ProxyIInv
  <1>2. ProxyIInv /\ [GatewayProxyNext]_gatewayProxyVars => ProxyIInv'
    BY ProxyTypesStep, FailuresStep, OpenedStep, IsolatedStep, ProxyTypeStep DEF ProxyIInv
  <1> QED BY <1>1, <1>2, PTL DEF GatewayProxySpec

(* A route is answered with 503 only after a failure of its own upstream,  *)
(* however the breakers of all routes open, half open and close; and no    *)
(* request is lost where every route has its URL.                          *)
THEOREM ProxiesAreIsolated == GatewayProxySpec => [](GatewayProxyTypeOK /\ RoutesAreIsolated)
  <1>1. ProxyIInv => GatewayProxyTypeOK /\ RoutesAreIsolated
    BY DEF ProxyIInv
  <1> QED BY <1>1, ProxyInvariance, PTL

-----------------------------------------------------------------------------
(* The layers                                                              *)

(* The names of the services.                                              *)
Names == Range(Services)

(* Counters and labels are sequences; the layers are counted from 1.       *)
RequestTypes ==
  /\ counters \in [Arrivals -> Seq(Names)] /\ counted \in [Arrivals -> Seq(Names)]
  /\ Len(Services) \in Nat

(* Each layer that a request has passed has hung its counter on it, and    *)
(* the one that took it has hung its own.                                  *)
LayersPassed ==
  \A r \in Arrivals :
    /\ stage[r] \in {"idle", "auth", "usage"} => counters[r] = <<>>
    /\ stage[r] = "layer" => layer[r] >= 1 /\ Len(counters[r]) = layer[r] - 1
    /\ stage[r] \in {"second_auth", "proxy"} => Target(r) \in Range(counters[r])

(* Nothing but a request whose token was good gets behind the first check. *)
FirstCheck ==
  \A r \in Arrivals :
    /\ stage[r] = "auth" => path[r] # "public"
    /\ stage[r] \in {"usage", "layer", "second_auth", "proxy"} =>
         token[r] \in {"good", "expired"} /\ path[r] # "public"

(* A request that was forwarded is at the proxy or behind it.              *)
ForwardedStages == \A r \in forwarded : stage[r] \in Finished \cup {"proxy", "cut"}

(* Nothing counts a request before its end, nor one whose client left.     *)
NotCountedYet ==
  \A r \in Arrivals : r \in left \/ stage[r] \notin Finished => counted[r] = <<>>

RequestIInv ==
  /\ GatewayRequestTypeOK /\ RequestTypes /\ LayersPassed /\ FirstCheck /\ ForwardedStages
  /\ NotCountedYet
  /\ ForwardedIsCounted /\ OnlyAdmittedIsStored

(* Sequences one after the other have the elements of both.                *)
LEMMA Joined ==
  ASSUME NEW s \in Seq(Names), NEW t \in Seq(Names)
  PROVE  /\ s \o t \in Seq(Names) /\ Len(s \o t) = Len(s) + Len(t) /\ Len(s) \in Nat
         /\ Range(s \o t) = Range(s) \cup Range(t)
  <1>1. s \o t \in Seq(Names) /\ Len(s \o t) = Len(s) + Len(t) /\ Len(s) \in Nat /\ Len(t) \in Nat
    OBVIOUS
  <1>2. DOMAIN s = 1 .. Len(s) /\ DOMAIN t = 1 .. Len(t) /\ DOMAIN (s \o t) = 1 .. Len(s) + Len(t)
    OBVIOUS
  <1>3. \A i \in 1 .. Len(s) : (s \o t)[i] = s[i]
    OBVIOUS
  <1>4. \A i \in 1 .. Len(t) : (s \o t)[Len(s) + i] = t[i]
    OBVIOUS
  <1>5. \A i \in 1 .. Len(s) + Len(t) :
          i \in 1 .. Len(s) \/ \E j \in 1 .. Len(t) : i = Len(s) + j
    <2>1. ASSUME NEW i \in 1 .. Len(s) + Len(t), i \notin 1 .. Len(s)
          PROVE  i - Len(s) \in 1 .. Len(t) /\ i = Len(s) + (i - Len(s))
      BY <1>1, <2>1
    <2> QED BY <2>1
  <1>6. ASSUME NEW x \in Range(s \o t) PROVE x \in Range(s) \cup Range(t)
    <2>1. PICK i \in 1 .. Len(s) + Len(t) : x = (s \o t)[i]
      BY <1>2, <1>6 DEF Range
    <2>2. CASE i \in 1 .. Len(s)
      BY <1>2, <1>3, <2>1, <2>2 DEF Range
    <2>3. CASE \E j \in 1 .. Len(t) : i = Len(s) + j
      BY <1>2, <1>4, <2>1, <2>3 DEF Range
    <2> QED BY <1>5, <2>2, <2>3
  <1>7. ASSUME NEW x \in Range(s) PROVE x \in Range(s \o t)
    <2>1. PICK i \in 1 .. Len(s) : x = s[i]
      BY <1>2, <1>7 DEF Range
    <2>2. i \in 1 .. Len(s) + Len(t) /\ (s \o t)[i] = x
      BY <1>1, <1>3, <2>1
    <2> QED BY ONLY <1>2, <2>2 DEF Range
  <1>8. ASSUME NEW x \in Range(t) PROVE x \in Range(s \o t)
    <2>1. PICK j \in 1 .. Len(t) : x = t[j]
      BY <1>2, <1>8 DEF Range
    <2>2. Len(s) + j \in 1 .. Len(s) + Len(t) /\ (s \o t)[Len(s) + j] = x
      BY <1>1, <1>4, <2>1
    <2> QED BY ONLY <1>2, <2>2 DEF Range
  <1> QED BY <1>1, <1>6, <1>7, <1>8

(* Of one element, or none.                                                *)
LEMMA OneOrNone ==
  ASSUME NEW S, NEW x \in S
  PROVE  /\ <<x>> \in Seq(S) /\ Len(<<x>>) = 1 /\ Range(<<x>>) = {x}
         /\ <<>> \in Seq(S) /\ Len(<<>>) = 0 /\ Range(<<>>) = {}
  <1>1. DOMAIN <<x>> = {1} /\ <<x>>[1] = x
    OBVIOUS
  <1>2. Range(<<x>>) = {x}
    BY ONLY <1>1 DEF Range
  <1>3. DOMAIN <<>> = {}
    OBVIOUS
  <1>4. Range(<<>>) = {}
    BY ONLY <1>3 DEF Range
  <1>5. <<x>> \in Seq(S) /\ Len(<<x>>) = 1
    OBVIOUS
  <1>6. <<>> \in Seq(S)
    OBVIOUS
  <1>7. Len(<<>>) = 0
    OBVIOUS
  <1> QED BY <1>2, <1>4, <1>5, <1>6, <1>7

(* A layer's name is among the services.                                   *)
LEMMA ServiceAt ==
  ASSUME NEW i \in 1 .. Len(Services)
  PROVE  Services[i] \in Names /\ Services[i] \in Range(Services)
  <1>1. DOMAIN Services = 1 .. Len(Services)
    BY GatewayRequestAssumption
  <1> QED BY <1>1, GatewayRequestAssumption DEF Range, Names

(* What trackRoute hangs on a request: the service once more, and for the  *)
(* ledger twice.                                                           *)
LEMMA OneMoreCounter ==
  ASSUME RequestTypes, GatewayRequestTypeOK, LayersPassed, NEW r \in Arrivals, TrackRoute(r)
  PROVE  /\ layer[r] \in 1 .. Len(Services)
         /\ counters' = [counters EXCEPT ![r] = counters'[r]] /\ counters'[r] \in Seq(Names)
         /\ Range(counters'[r]) = Range(counters[r]) \cup {Services[layer[r]]}
         /\ Target(r) # Services[layer[r]] =>
              /\ Len(counters'[r]) = layer[r] /\ layer' = [layer EXCEPT ![r] = layer[r] + 1]
              /\ stage' = stage
         /\ Target(r) = Services[layer[r]] =>
              /\ Len(counters'[r]) <= Len(Services) + 1 /\ layer' = layer
              /\ stage' = [stage EXCEPT ![r] = "second_auth"]
  <1> DEFINE i == layer[r]
  <1>1. /\ stage[r] = "layer" /\ i \in 1 .. Len(Services) /\ Len(Services) \in Nat
        /\ counters[r] \in Seq(Names) /\ Len(counters[r]) = i - 1 /\ DOMAIN counters = Arrivals
        /\ layer \in [Arrivals -> 0 .. Len(Services) + 1]
    BY DEF TrackRoute, RequestTypes, GatewayRequestTypeOK, LayersPassed
  <1>2. Services[i] \in Names
    BY <1>1, ServiceAt
  <1> HIDE DEF i
  <1>3. /\ <<Services[i]>> \in Seq(Names) /\ Len(<<Services[i]>>) = 1
        /\ Range(<<Services[i]>>) = {Services[i]}
        /\ <<>> \in Seq(Names) /\ Len(<<>>) = 0 /\ Range(<<>>) = {}
    BY <1>2, OneOrNone
  <1> DEFINE one == counters[r] \o <<Services[i]>>
             more == IF Services[i] = Ledger THEN <<Ledger>> ELSE <<>>
  <1>4. /\ one \in Seq(Names) /\ Len(one) = i
        /\ Range(one) = Range(counters[r]) \cup {Services[i]}
    <2>1. /\ one \in Seq(Names) /\ Len(one) = Len(counters[r]) + Len(<<Services[i]>>)
          /\ Range(one) = Range(counters[r]) \cup Range(<<Services[i]>>)
      BY <1>1, <1>3, Joined
    <2> HIDE DEF one
    <2> QED BY ONLY <1>1, <1>3, <2>1
  <1>5. more \in Seq(Names) /\ Len(more) \in {0, 1} /\ Range(more) \subseteq {Services[i]}
    BY ONLY <1>3
  <1> HIDE DEF one, more
  <1>6. /\ one \o more \in Seq(Names) /\ Len(one \o more) = i + Len(more)
        /\ Range(one \o more) = Range(one) \cup Range(more)
    BY ONLY <1>4, <1>5, Joined
  <1>7. CASE Target(r) = Services[i]
    <2>1. /\ stage' = [stage EXCEPT ![r] = "second_auth"] /\ layer' = layer
          /\ counters' = [counters EXCEPT ![r] = one \o more]
      BY <1>7 DEF TrackRoute, Enter, Entered, one, more, i
    <2>2. /\ counters'[r] = one \o more
          /\ counters' = [counters EXCEPT ![r] = counters'[r]] /\ counters'[r] \in Seq(Names)
      BY ONLY <1>1, <1>6, <2>1
    <2>3. Range(counters'[r]) = Range(counters[r]) \cup {Services[i]}
      BY ONLY <1>4, <1>5, <1>6, <2>2
    <2>4. Len(counters'[r]) <= Len(Services) + 1
      <3>1. Len(counters'[r]) = i + Len(more)
        BY ONLY <1>6, <2>2
      <3>2. i \in Nat /\ i <= Len(Services) /\ Len(Services) \in Nat
        BY ONLY <1>1
      <3>3. Len(more) = 0 \/ Len(more) = 1
        BY ONLY <1>5
      <3>4. Len(counters'[r]) = i \/ Len(counters'[r]) = i + 1
        <4>1. CASE Len(more) = 0
          BY <3>1, <3>2, <4>1
        <4>2. CASE Len(more) = 1
          BY <3>1, <4>2
        <4> QED BY <3>3, <4>1, <4>2
      <3> QED BY <3>2, <3>4
    <2> QED BY <1>1, <1>7, <2>1, <2>2, <2>3, <2>4 DEF i
  <1>8. CASE Target(r) # Services[i]
    <2>1. /\ layer' = [layer EXCEPT ![r] = i + 1] /\ stage' = stage
          /\ counters' = [counters EXCEPT ![r] = one]
      BY <1>8 DEF TrackRoute, Entered, one, i
    <2> QED BY <1>1, <1>4, <1>8, <2>1 DEF i
  <1> QED BY <1>7, <1>8

(* Counters stay sequences. *)
LEMMA RequestTypesStep ==
  ASSUME GatewayRequestTypeOK, RequestTypes, LayersPassed,
         [GatewayRequestNext]_gatewayRequestVars
  PROVE  RequestTypes'
  <1> USE  DEF RequestTypes, input, world, Enter, Finish, NotYet
  <1>1. CASE Shutdown
    BY <1>1 DEF Shutdown, Exit
  <1>2. ASSUME NEW r \in Arrivals, Accept(r) PROVE RequestTypes'
    BY <1>2 DEF Accept
  <1>3. ASSUME NEW r \in Arrivals, Expire(r) PROVE RequestTypes'
    BY <1>3 DEF Expire
  <1>4. ASSUME NEW r \in Arrivals, Auth(r) PROVE RequestTypes'
    BY <1>4 DEF Auth
  <1>5. ASSUME NEW r \in Arrivals, OpenaiUsage(r) PROVE RequestTypes'
    BY <1>5 DEF OpenaiUsage
  <1>6. ASSUME NEW r \in Arrivals, TrackRoute(r) PROVE RequestTypes'
    <2>1. /\ layer[r] \in 1 .. Len(Services) /\ Len(Services) \in Nat
          /\ counters' = [counters EXCEPT ![r] = counters'[r]] /\ counters'[r] \in Seq(Names)
          /\ Range(counters'[r]) = Range(counters[r]) \cup {Services[layer[r]]}
          /\ Target(r) # Services[layer[r]] =>
               /\ Len(counters'[r]) = layer[r] /\ layer' = [layer EXCEPT ![r] = layer[r] + 1]
               /\ stage' = stage
          /\ Target(r) = Services[layer[r]] =>
               /\ Len(counters'[r]) <= Len(Services) + 1 /\ layer' = layer
               /\ stage' = [stage EXCEPT ![r] = "second_auth"]
      BY <1>6, OneMoreCounter
    <2>2. UNCHANGED <<path, usage, token, counted, rows, forwarded, left, server>>
      BY <1>6 DEF TrackRoute
    <2> QED BY <2>1, <2>2
  <1>7. ASSUME NEW r \in Arrivals, NotFound(r) PROVE RequestTypes'
    BY <1>7 DEF NotFound
  <1>8. ASSUME NEW r \in Arrivals, SecondAuth(r) PROVE RequestTypes'
    BY <1>8 DEF SecondAuth
  <1>9. ASSUME NEW r \in Arrivals, Proxy(r) PROVE RequestTypes'
    BY <1>9 DEF Proxy
  <1>10. ASSUME NEW r \in Arrivals, ProxyThrows(r) PROVE RequestTypes'
    BY <1>10 DEF ProxyThrows, Exit
  <1>11. ASSUME NEW r \in Arrivals, Leaves(r) PROVE RequestTypes'
    BY <1>11 DEF Leaves
  <1>12. CASE UNCHANGED gatewayRequestVars
    BY <1>12 DEF gatewayRequestVars
  <1> HIDE DEF RequestTypes
  <1> QED
    BY <1>1, <1>2, <1>3, <1>4, <1>5, <1>6, <1>7, <1>8, <1>9, <1>10, <1>11, <1>12
       DEF GatewayRequestNext, LayerStep

(* Every step keeps the types. *)
LEMMA LayerTypeStep ==
  ASSUME GatewayRequestTypeOK, RequestTypes, LayersPassed,
         [GatewayRequestNext]_gatewayRequestVars
  PROVE  GatewayRequestTypeOK'
  <1> USE  DEF GatewayRequestTypeOK, RequestTypes, Finished, input, world, Enter, Finish, NotYet
  <1>1. CASE Shutdown
    BY <1>1 DEF Shutdown, Exit
  <1>2. ASSUME NEW r \in Arrivals, Accept(r) PROVE GatewayRequestTypeOK'
    BY <1>2 DEF Accept
  <1>3. ASSUME NEW r \in Arrivals, Expire(r) PROVE GatewayRequestTypeOK'
    BY <1>3 DEF Expire
  <1>4. ASSUME NEW r \in Arrivals, Auth(r) PROVE GatewayRequestTypeOK'
    BY <1>4 DEF Auth, Admitted
  <1>5. ASSUME NEW r \in Arrivals, OpenaiUsage(r) PROVE GatewayRequestTypeOK'
    BY <1>5 DEF OpenaiUsage
  <1>6. ASSUME NEW r \in Arrivals, TrackRoute(r) PROVE GatewayRequestTypeOK'
    <2>1. /\ layer[r] \in 1 .. Len(Services) /\ Len(Services) \in Nat
          /\ counters' = [counters EXCEPT ![r] = counters'[r]] /\ counters'[r] \in Seq(Names)
          /\ Range(counters'[r]) = Range(counters[r]) \cup {Services[layer[r]]}
          /\ Target(r) # Services[layer[r]] =>
               /\ Len(counters'[r]) = layer[r] /\ layer' = [layer EXCEPT ![r] = layer[r] + 1]
               /\ stage' = stage
          /\ Target(r) = Services[layer[r]] =>
               /\ Len(counters'[r]) <= Len(Services) + 1 /\ layer' = layer
               /\ stage' = [stage EXCEPT ![r] = "second_auth"]
      BY <1>6, OneMoreCounter
    <2>2. UNCHANGED <<path, usage, token, counted, rows, forwarded, left, server>>
      BY <1>6 DEF TrackRoute
    <2>3. Services[layer[r]] \in Range(Services)
      BY <2>1, ServiceAt
    <2>4. /\ \A q \in Arrivals : Len(counters'[q]) <= Len(Services) + 1
          /\ \A q \in Arrivals :
               Range(counters'[q]) \cup Range(counted'[q]) \subseteq Range(Services)
      <3>1. ASSUME NEW q \in Arrivals, q # r
            PROVE  /\ Len(counters'[q]) <= Len(Services) + 1
                   /\ Range(counters'[q]) \subseteq Range(Services)
        BY <2>1, <3>1
      <3>2. Len(counters'[r]) <= Len(Services) + 1
        BY <2>1
      <3>3. Range(counters'[r]) \subseteq Range(Services)
        BY <2>1, <2>3
      <3>4. ASSUME NEW q \in Arrivals PROVE Range(counted'[q]) \subseteq Range(Services)
        BY <2>2
      <3> QED BY <3>1, <3>2, <3>3, <3>4
    <2>5. layer' \in [Arrivals -> 0 .. Len(Services) + 1]
      BY <2>1
    <2>6. stage' \in [Arrivals -> Finished \cup {"idle", "auth", "usage", "layer",
                                                "second_auth", "proxy", "cut"}]
      BY <2>1
    <2> QED BY <2>2, <2>4, <2>5, <2>6
  <1>7. ASSUME NEW r \in Arrivals, NotFound(r) PROVE GatewayRequestTypeOK'
    BY <1>7 DEF NotFound
  <1>8. ASSUME NEW r \in Arrivals, SecondAuth(r) PROVE GatewayRequestTypeOK'
    BY <1>8 DEF SecondAuth, Admitted
  <1>9. ASSUME NEW r \in Arrivals, Proxy(r) PROVE GatewayRequestTypeOK'
    BY <1>9 DEF Proxy
  <1>10. ASSUME NEW r \in Arrivals, ProxyThrows(r) PROVE GatewayRequestTypeOK'
    BY <1>10 DEF ProxyThrows, Exit
  <1>11. ASSUME NEW r \in Arrivals, Leaves(r) PROVE GatewayRequestTypeOK'
    BY <1>11 DEF Leaves
  <1>12. CASE UNCHANGED gatewayRequestVars
    BY <1>12 DEF gatewayRequestVars
  <1> HIDE DEF GatewayRequestTypeOK, RequestTypes, Finished
  <1> QED
    BY <1>1, <1>2, <1>3, <1>4, <1>5, <1>6, <1>7, <1>8, <1>9, <1>10, <1>11, <1>12
       DEF GatewayRequestNext, LayerStep

(* A request has the counters of the layers behind it. *)
LEMMA LayersStep ==
  ASSUME GatewayRequestTypeOK, RequestTypes, LayersPassed,
         [GatewayRequestNext]_gatewayRequestVars
  PROVE  LayersPassed'
  <1> USE  DEF GatewayRequestTypeOK, RequestTypes, Finished, LayersPassed, Target, input, world,
         Enter, Finish, NotYet
  <1>1. CASE Shutdown
    BY <1>1 DEF Shutdown, Exit
  <1>2. ASSUME NEW r \in Arrivals, Accept(r) PROVE LayersPassed'
    BY <1>2 DEF Accept
  <1>3. ASSUME NEW r \in Arrivals, Expire(r) PROVE LayersPassed'
    BY <1>3 DEF Expire
  <1>4. ASSUME NEW r \in Arrivals, Auth(r) PROVE LayersPassed'
    BY <1>4 DEF Auth, Admitted
  <1>5. ASSUME NEW r \in Arrivals, OpenaiUsage(r) PROVE LayersPassed'
    BY <1>5 DEF OpenaiUsage
  <1>6. ASSUME NEW r \in Arrivals, TrackRoute(r) PROVE LayersPassed'
    <2>1. /\ layer[r] \in 1 .. Len(Services) /\ Len(Services) \in Nat
          /\ counters' = [counters EXCEPT ![r] = counters'[r]] /\ counters'[r] \in Seq(Names)
          /\ Range(counters'[r]) = Range(counters[r]) \cup {Services[layer[r]]}
          /\ Target(r) # Services[layer[r]] =>
               /\ Len(counters'[r]) = layer[r] /\ layer' = [layer EXCEPT ![r] = layer[r] + 1]
               /\ stage' = stage
          /\ Target(r) = Services[layer[r]] =>
               /\ Len(counters'[r]) <= Len(Services) + 1 /\ layer' = layer
               /\ stage' = [stage EXCEPT ![r] = "second_auth"]
      BY <1>6, OneMoreCounter
    <2>2. UNCHANGED <<path, usage, token, counted, rows, forwarded, left, server>>
      BY <1>6 DEF TrackRoute
    <2>3. CASE Target(r) = Services[layer[r]]
      BY <2>1, <2>2, <2>3
    <2>4. CASE Target(r) # Services[layer[r]]
      <3>1. stage[r] = "layer" /\ stage' = stage /\ path' = path
        BY <1>6, <2>1, <2>2, <2>4 DEF TrackRoute
      <3>2. /\ layer'[r] = layer[r] + 1 /\ Len(counters'[r]) = layer[r]
            /\ layer[r] \in Nat /\ layer[r] >= 1
        BY <2>1, <2>4
      <3>3. layer'[r] >= 1 /\ Len(counters'[r]) = layer'[r] - 1
        BY ONLY <3>2
      <3>4. ASSUME NEW q \in Arrivals, q # r
            PROVE  layer'[q] = layer[q] /\ counters'[q] = counters[q]
        BY <2>1, <2>4, <3>4
      <3> QED BY <3>1, <3>3, <3>4
    <2> QED BY <2>3, <2>4
  <1>7. ASSUME NEW r \in Arrivals, NotFound(r) PROVE LayersPassed'
    BY <1>7 DEF NotFound
  <1>8. ASSUME NEW r \in Arrivals, SecondAuth(r) PROVE LayersPassed'
    BY <1>8 DEF SecondAuth, Admitted
  <1>9. ASSUME NEW r \in Arrivals, Proxy(r) PROVE LayersPassed'
    BY <1>9 DEF Proxy
  <1>10. ASSUME NEW r \in Arrivals, ProxyThrows(r) PROVE LayersPassed'
    BY <1>10 DEF ProxyThrows, Exit
  <1>11. ASSUME NEW r \in Arrivals, Leaves(r) PROVE LayersPassed'
    BY <1>11 DEF Leaves
  <1>12. CASE UNCHANGED gatewayRequestVars
    BY <1>12 DEF gatewayRequestVars
  <1> HIDE DEF GatewayRequestTypeOK, RequestTypes, Finished, LayersPassed, Target
  <1> QED
    BY <1>1, <1>2, <1>3, <1>4, <1>5, <1>6, <1>7, <1>8, <1>9, <1>10, <1>11, <1>12
       DEF GatewayRequestNext, LayerStep

(* Nothing gets around the first check. *)
LEMMA FirstCheckStep ==
  ASSUME GatewayRequestTypeOK, FirstCheck, [GatewayRequestNext]_gatewayRequestVars
  PROVE  FirstCheck'
  <1> USE  DEF GatewayRequestTypeOK, RequestTypes, Finished, FirstCheck, input, world, Enter,
         Finish, NotYet
  <1>1. CASE Shutdown
    BY <1>1 DEF Shutdown, Exit
  <1>2. ASSUME NEW r \in Arrivals, Accept(r) PROVE FirstCheck'
    BY <1>2 DEF Accept
  <1>3. ASSUME NEW r \in Arrivals, Expire(r) PROVE FirstCheck'
    BY <1>3 DEF Expire
  <1>4. ASSUME NEW r \in Arrivals, Auth(r) PROVE FirstCheck'
    BY <1>4 DEF Auth, Admitted
  <1>5. ASSUME NEW r \in Arrivals, OpenaiUsage(r) PROVE FirstCheck'
    BY <1>5 DEF OpenaiUsage
  <1>6. ASSUME NEW r \in Arrivals, TrackRoute(r) PROVE FirstCheck'
    BY <1>6 DEF TrackRoute
  <1>7. ASSUME NEW r \in Arrivals, NotFound(r) PROVE FirstCheck'
    BY <1>7 DEF NotFound
  <1>8. ASSUME NEW r \in Arrivals, SecondAuth(r) PROVE FirstCheck'
    BY <1>8 DEF SecondAuth, Admitted
  <1>9. ASSUME NEW r \in Arrivals, Proxy(r) PROVE FirstCheck'
    BY <1>9 DEF Proxy
  <1>10. ASSUME NEW r \in Arrivals, ProxyThrows(r) PROVE FirstCheck'
    BY <1>10 DEF ProxyThrows, Exit
  <1>11. ASSUME NEW r \in Arrivals, Leaves(r) PROVE FirstCheck'
    BY <1>11 DEF Leaves
  <1>12. CASE UNCHANGED gatewayRequestVars
    BY <1>12 DEF gatewayRequestVars
  <1> HIDE DEF GatewayRequestTypeOK, RequestTypes, Finished, FirstCheck
  <1> QED
    BY <1>1, <1>2, <1>3, <1>4, <1>5, <1>6, <1>7, <1>8, <1>9, <1>10, <1>11, <1>12
       DEF GatewayRequestNext, LayerStep

(* Nothing comes back from the proxy. *)
LEMMA ForwardedStep ==
  ASSUME GatewayRequestTypeOK, ForwardedStages, [GatewayRequestNext]_gatewayRequestVars
  PROVE  ForwardedStages'
  <1> USE  DEF GatewayRequestTypeOK, RequestTypes, Finished, ForwardedStages, input, world,
         Enter, Finish, NotYet
  <1>1. CASE Shutdown
    BY <1>1 DEF Shutdown, Exit
  <1>2. ASSUME NEW r \in Arrivals, Accept(r) PROVE ForwardedStages'
    BY <1>2 DEF Accept
  <1>3. ASSUME NEW r \in Arrivals, Expire(r) PROVE ForwardedStages'
    BY <1>3 DEF Expire
  <1>4. ASSUME NEW r \in Arrivals, Auth(r) PROVE ForwardedStages'
    BY <1>4 DEF Auth, Admitted
  <1>5. ASSUME NEW r \in Arrivals, OpenaiUsage(r) PROVE ForwardedStages'
    BY <1>5 DEF OpenaiUsage
  <1>6. ASSUME NEW r \in Arrivals, TrackRoute(r) PROVE ForwardedStages'
    BY <1>6 DEF TrackRoute
  <1>7. ASSUME NEW r \in Arrivals, NotFound(r) PROVE ForwardedStages'
    BY <1>7 DEF NotFound
  <1>8. ASSUME NEW r \in Arrivals, SecondAuth(r) PROVE ForwardedStages'
    <2>1. CASE stage' = [stage EXCEPT ![r] = "proxy"] /\ forwarded' = forwarded \cup {r}
      BY <2>1
    <2>2. CASE stage' = [stage EXCEPT ![r] = "401"] /\ forwarded' = forwarded
      BY <1>8, <2>2
    <2> QED BY <1>8, <2>1, <2>2 DEF SecondAuth
  <1>9. ASSUME NEW r \in Arrivals, Proxy(r) PROVE ForwardedStages'
    BY <1>9 DEF Proxy
  <1>10. ASSUME NEW r \in Arrivals, ProxyThrows(r) PROVE ForwardedStages'
    BY <1>10 DEF ProxyThrows, Exit
  <1>11. ASSUME NEW r \in Arrivals, Leaves(r) PROVE ForwardedStages'
    BY <1>11 DEF Leaves
  <1>12. CASE UNCHANGED gatewayRequestVars
    BY <1>12 DEF gatewayRequestVars
  <1> HIDE DEF GatewayRequestTypeOK, RequestTypes, Finished, ForwardedStages
  <1> QED
    BY <1>1, <1>2, <1>3, <1>4, <1>5, <1>6, <1>7, <1>8, <1>9, <1>10, <1>11, <1>12
       DEF GatewayRequestNext, LayerStep

(* The end of a request whose client left counts nothing. *)
LEMMA FinishCounts ==
  ASSUME GatewayRequestTypeOK, RequestTypes, NotCountedYet, NEW r \in Arrivals,
         NEW s \in Finished, Finish(r, s), UNCHANGED left
  PROVE  NotCountedYet'
  <1>1. DOMAIN stage = Arrivals /\ DOMAIN counted = Arrivals
    BY DEF GatewayRequestTypeOK, RequestTypes
  <1>2. ASSUME NEW q \in Arrivals, q # r PROVE stage'[q] = stage[q] /\ counted'[q] = counted[q]
    BY <1>1, <1>2 DEF Finish, Enter
  <1>3. stage'[r] = s /\ (r \in left => counted'[r] = counted[r])
    BY <1>1 DEF Finish, Enter
  <1> QED BY <1>2, <1>3 DEF NotCountedYet

(* A request is counted at its end, if at all. *)
LEMMA NotCountedStep ==
  ASSUME GatewayRequestTypeOK, RequestTypes, NotCountedYet, [GatewayRequestNext]_gatewayRequestVars
  PROVE  NotCountedYet'
  <1>0. DOMAIN stage = Arrivals /\ DOMAIN counted = Arrivals
    BY DEF GatewayRequestTypeOK, RequestTypes
  <1> USE DEF Finished, input, world, Enter, Finish, NotYet
  <1>1. CASE Shutdown
    BY <1>0, <1>1, FinishCounts DEF NotCountedYet, Shutdown, Exit
  <1>2. ASSUME NEW r \in Arrivals, Accept(r) PROVE NotCountedYet'
    BY <1>0, <1>2, FinishCounts DEF NotCountedYet, Accept
  <1>3. ASSUME NEW r \in Arrivals, Expire(r) PROVE NotCountedYet'
    BY <1>0, <1>3, FinishCounts DEF NotCountedYet, Expire
  <1>4. ASSUME NEW r \in Arrivals, Auth(r) PROVE NotCountedYet'
    BY <1>0, <1>4, FinishCounts DEF NotCountedYet, Auth, Admitted
  <1>5. ASSUME NEW r \in Arrivals, OpenaiUsage(r) PROVE NotCountedYet'
    BY <1>0, <1>5, FinishCounts DEF NotCountedYet, OpenaiUsage
  <1>6. ASSUME NEW r \in Arrivals, TrackRoute(r) PROVE NotCountedYet'
    BY <1>0, <1>6, FinishCounts DEF NotCountedYet, TrackRoute
  <1>7. ASSUME NEW r \in Arrivals, NotFound(r) PROVE NotCountedYet'
    BY <1>0, <1>7, FinishCounts DEF NotCountedYet, NotFound
  <1>8. ASSUME NEW r \in Arrivals, SecondAuth(r) PROVE NotCountedYet'
    BY <1>0, <1>8, FinishCounts DEF NotCountedYet, SecondAuth, Admitted
  <1>9. ASSUME NEW r \in Arrivals, Proxy(r) PROVE NotCountedYet'
    BY <1>0, <1>9, FinishCounts DEF NotCountedYet, Proxy
  <1>10. ASSUME NEW r \in Arrivals, ProxyThrows(r) PROVE NotCountedYet'
    BY <1>0, <1>10, FinishCounts DEF NotCountedYet, ProxyThrows, Exit
  <1>11. ASSUME NEW r \in Arrivals, Leaves(r) PROVE NotCountedYet'
    BY <1>0, <1>11, FinishCounts DEF NotCountedYet, Leaves
  <1>12. CASE UNCHANGED gatewayRequestVars
    BY <1>0, <1>12, FinishCounts DEF NotCountedYet, gatewayRequestVars
  <1> HIDE DEF Finished
  <1> QED
    BY <1>1, <1>2, <1>3, <1>4, <1>5, <1>6, <1>7, <1>8, <1>9, <1>10, <1>11, <1>12
       DEF GatewayRequestNext, LayerStep

(* What was forwarded is counted when it ends. *)
LEMMA CountedStep ==
  ASSUME GatewayRequestTypeOK, RequestTypes, LayersPassed, ForwardedStages, ForwardedIsCounted,
         NotCountedYet,
         [GatewayRequestNext]_gatewayRequestVars
  PROVE  ForwardedIsCounted'
  <1> USE  DEF GatewayRequestTypeOK, RequestTypes, Finished, ForwardedIsCounted,
         ForwardedStages, LayersPassed, Target, input, world, Enter, Finish, NotYet
  <1>1. CASE Shutdown
    BY <1>1 DEF Shutdown, Exit
  <1>2. ASSUME NEW r \in Arrivals, Accept(r) PROVE ForwardedIsCounted'
    BY <1>2 DEF Accept
  <1>3. ASSUME NEW r \in Arrivals, Expire(r) PROVE ForwardedIsCounted'
    BY <1>3 DEF Expire
  <1>4. ASSUME NEW r \in Arrivals, Auth(r) PROVE ForwardedIsCounted'
    BY <1>4 DEF Auth, Admitted
  <1>5. ASSUME NEW r \in Arrivals, OpenaiUsage(r) PROVE ForwardedIsCounted'
    BY <1>5 DEF OpenaiUsage
  <1>6. ASSUME NEW r \in Arrivals, TrackRoute(r) PROVE ForwardedIsCounted'
    BY <1>6 DEF TrackRoute
  <1>7. ASSUME NEW r \in Arrivals, NotFound(r) PROVE ForwardedIsCounted'
    BY <1>7 DEF NotFound
  <1>8. ASSUME NEW r \in Arrivals, SecondAuth(r) PROVE ForwardedIsCounted'
    <2>1. r \notin forwarded /\ UNCHANGED path
      BY <1>8 DEF SecondAuth
    <2>2. CASE Admitted(r)
      <3>1. ASSUME NEW q \in forwarded', stage'[q] \in Finished
            PROVE  Target(q)' \in Range(counted'[q]) <=> q \notin left'
        <4>1. q # r /\ q \in forwarded /\ stage'[q] = stage[q] /\ counted' = counted /\ left' = left
          BY <1>8, <2>2, <3>1 DEF SecondAuth
        <4> QED BY <2>1, <3>1, <4>1
      <3> QED BY <3>1
    <2>3. CASE ~Admitted(r)
      BY <1>8, <2>1, <2>3 DEF SecondAuth
    <2> QED BY <2>2, <2>3
  <1>9. ASSUME NEW r \in Arrivals, Proxy(r) PROVE ForwardedIsCounted'
    <2>1. UNCHANGED <<path, forwarded, left>> /\ Target(r) \in Range(counters[r])
      BY <1>9 DEF Proxy
    <2>2. PICK s \in {"ok", "upstream_error"} : Finish(r, s)
      BY <1>9 DEF Proxy
    <2>3. CASE r \in left
      <3>0. Range(<<>>) = {}
        BY OneOrNone
      <3>1. counted'[r] = <<>> /\ Range(<<>>) = {}
        BY <2>2, <2>3, <3>0 DEF NotCountedYet
      <3>2. Target(r) \notin Range(counted'[r])
        BY <3>1
      <3> QED BY <2>1, <2>2, <2>3, <3>2
    <2>4. CASE r \notin left
      <3>1. counted'[r] = counters[r]
        BY <2>2, <2>4
      <3> QED BY <2>1, <2>2, <2>4, <3>1
    <2> QED BY <2>3, <2>4
  <1>10. ASSUME NEW r \in Arrivals, ProxyThrows(r) PROVE ForwardedIsCounted'
    BY <1>10 DEF ProxyThrows, Exit
  <1>11. ASSUME NEW r \in Arrivals, Leaves(r) PROVE ForwardedIsCounted'
    BY <1>11 DEF Leaves
  <1>12. CASE UNCHANGED gatewayRequestVars
    BY <1>12 DEF gatewayRequestVars
  <1> HIDE DEF GatewayRequestTypeOK, RequestTypes, Finished, ForwardedIsCounted,
               ForwardedStages, LayersPassed, Target
  <1> QED
    BY <1>1, <1>2, <1>3, <1>4, <1>5, <1>6, <1>7, <1>8, <1>9, <1>10, <1>11, <1>12
       DEF GatewayRequestNext, LayerStep

(* Rows and forwarded requests come from behind the first check. *)
LEMMA AdmittedStep ==
  ASSUME GatewayRequestTypeOK, FirstCheck, OnlyAdmittedIsStored,
         [GatewayRequestNext]_gatewayRequestVars
  PROVE  OnlyAdmittedIsStored'
  <1> USE  DEF GatewayRequestTypeOK, RequestTypes, Finished, OnlyAdmittedIsStored, FirstCheck,
         input, world, Enter, Finish, NotYet
  <1>1. CASE Shutdown
    BY <1>1 DEF Shutdown, Exit
  <1>2. ASSUME NEW r \in Arrivals, Accept(r) PROVE OnlyAdmittedIsStored'
    BY <1>2 DEF Accept
  <1>3. ASSUME NEW r \in Arrivals, Expire(r) PROVE OnlyAdmittedIsStored'
    BY <1>3 DEF Expire
  <1>4. ASSUME NEW r \in Arrivals, Auth(r) PROVE OnlyAdmittedIsStored'
    BY <1>4 DEF Auth, Admitted
  <1>5. ASSUME NEW r \in Arrivals, OpenaiUsage(r) PROVE OnlyAdmittedIsStored'
    BY <1>5 DEF OpenaiUsage
  <1>6. ASSUME NEW r \in Arrivals, TrackRoute(r) PROVE OnlyAdmittedIsStored'
    BY <1>6 DEF TrackRoute
  <1>7. ASSUME NEW r \in Arrivals, NotFound(r) PROVE OnlyAdmittedIsStored'
    BY <1>7 DEF NotFound
  <1>8. ASSUME NEW r \in Arrivals, SecondAuth(r) PROVE OnlyAdmittedIsStored'
    BY <1>8 DEF SecondAuth, Admitted
  <1>9. ASSUME NEW r \in Arrivals, Proxy(r) PROVE OnlyAdmittedIsStored'
    BY <1>9 DEF Proxy
  <1>10. ASSUME NEW r \in Arrivals, ProxyThrows(r) PROVE OnlyAdmittedIsStored'
    BY <1>10 DEF ProxyThrows, Exit
  <1>11. ASSUME NEW r \in Arrivals, Leaves(r) PROVE OnlyAdmittedIsStored'
    BY <1>11 DEF Leaves
  <1>12. CASE UNCHANGED gatewayRequestVars
    BY <1>12 DEF gatewayRequestVars
  <1> HIDE DEF GatewayRequestTypeOK, RequestTypes, Finished, OnlyAdmittedIsStored, FirstCheck
  <1> QED
    BY <1>1, <1>2, <1>3, <1>4, <1>5, <1>6, <1>7, <1>8, <1>9, <1>10, <1>11, <1>12
       DEF GatewayRequestNext, LayerStep

(* RequestIInv is an invariant of the layers.                              *)
THEOREM RequestInvariance == GatewayRequestSpec => []RequestIInv
  <1>1. GatewayRequestInit => RequestIInv
    <2> SUFFICES ASSUME GatewayRequestInit PROVE RequestIInv
      OBVIOUS
    <2>1. Len(Services) \in Nat /\ Range(<<>>) = {} /\ Len(<<>>) = 0
      <3>1. Range(<<>>) = {} /\ Len(<<>>) = 0
        BY OneOrNone
      <3> QED BY <3>1, GatewayRequestAssumption
    <2>2. GatewayRequestTypeOK
      BY <2>1 DEF GatewayRequestInit, GatewayRequestTypeOK
    <2>3. RequestTypes
      BY <2>1 DEF GatewayRequestInit, RequestTypes
    <2>4. LayersPassed /\ FirstCheck /\ ForwardedStages /\ NotCountedYet /\ ForwardedIsCounted
         /\ OnlyAdmittedIsStored
      BY DEF GatewayRequestInit, LayersPassed, FirstCheck, ForwardedStages, NotCountedYet,
             ForwardedIsCounted, OnlyAdmittedIsStored
    <2> QED BY <2>2, <2>3, <2>4 DEF RequestIInv
  <1>2. RequestIInv /\ [GatewayRequestNext]_gatewayRequestVars => RequestIInv'
    BY RequestTypesStep, LayerTypeStep, LayersStep, FirstCheckStep, ForwardedStep, NotCountedStep,
       CountedStep, AdmittedStep DEF RequestIInv
  <1> QED BY <1>1, <1>2, PTL DEF GatewayRequestSpec

(* Every request that reached its proxy is counted under its service once  *)
(* it is answered, and one whose client left is not; and only requests     *)
(* whose token was good are stored or forwarded, whatever expires, throws  *)
(* or shuts down on the way.                                               *)
THEOREM LayersCountAndCheck ==
  GatewayRequestSpec => [](GatewayRequestTypeOK /\ ForwardedIsCounted /\ OnlyAdmittedIsStored)
  <1>1. RequestIInv => GatewayRequestTypeOK /\ ForwardedIsCounted /\ OnlyAdmittedIsStored
    BY DEF RequestIInv
  <1> QED BY <1>1, RequestInvariance, PTL

-----------------------------------------------------------------------------
(* The sockets                                                             *)

(* Only the middleware of the root namespace marks a socket.               *)
MarkedByRoot == \A s \in Sockets : namespace[s] = "/socket" => lastActivity[s] = Never

SocketIInv == GatewaySocketTypeOK /\ MarkedByRoot

(* SocketIInv is an invariant of the socket server.                        *)
THEOREM SocketInvariance == GatewaySocketSpec => []SocketIInv
  <1> USE SocketAssumption
  <1>1. GatewaySocketInit => SocketIInv
    BY DEF GatewaySocketInit, SocketIInv, GatewaySocketTypeOK, MarkedByRoot
  <1>2. SocketIInv /\ [GatewaySocketNext]_gatewaySocketVars => SocketIInv'
    <2> SUFFICES ASSUME SocketIInv, [GatewaySocketNext]_gatewaySocketVars PROVE SocketIInv'
      OBVIOUS
    <2> USE DEF SocketIInv, GatewaySocketTypeOK, MarkedByRoot, Tracked
    <2>1. CASE Tick
      BY <2>1 DEF Tick
    <2>2. CASE Sweep
      BY <2>2 DEF Sweep
    <2>3. ASSUME NEW s \in Sockets, Receive(s) PROVE SocketIInv'
      BY <2>3 DEF Receive
    <2>4. ASSUME NEW s \in Sockets, Leave(s) PROVE SocketIInv'
      BY <2>4 DEF Leave
    <2>5. ASSUME NEW s \in Sockets, NEW n \in {"/", "/socket"}, Connect(s, n) PROVE SocketIInv'
      BY <2>5 DEF Connect
    <2>6. CASE UNCHANGED gatewaySocketVars
      BY <2>6 DEF gatewaySocketVars
    <2> QED BY <2>1, <2>2, <2>3, <2>4, <2>5, <2>6 DEF GatewaySocketNext
  <1> QED BY <1>1, <1>2, PTL DEF GatewaySocketSpec

(* The sweep disconnects no socket that was heard within the limit: it     *)
(* disconnects none, because those it looks at are never marked.           *)
THEOREM SweepSparesTheActive == GatewaySocketSpec => []GatewaySocketTypeOK /\ ActiveStays
  <1>1. SocketIInv => GatewaySocketTypeOK
    BY DEF SocketIInv
  <1>2. SocketIInv /\ [GatewaySocketNext]_gatewaySocketVars =>
          [Sweep => \A s \in Sockets :
                      now - heard[s] <= IdleLimit => namespace'[s] = namespace[s]]_gatewaySocketVars
    BY DEF SocketIInv, MarkedByRoot, Sweep, Idle
  <1> QED BY <1>1, <1>2, SocketInvariance, PTL DEF GatewaySocketSpec, ActiveStays

-----------------------------------------------------------------------------
(* The gateway                                                             *)

(* Each part of the composition behaves as its own specification says.     *)
THEOREM PartsBehave == Spec => GatewayProxySpec /\ GatewayRequestSpec /\ GatewaySocketSpec
  <1> USE DEF OfProxy, OfLayers, OfSocket
  <1>1. Init => GatewayProxyInit /\ GatewayRequestInit /\ GatewaySocketInit
    BY DEF Init
  <1>2. [Next]_gatewayVars => [GatewayProxyNext]_gatewayProxyVars
    BY DEF Next, gatewayVars
  <1>3. [Next]_gatewayVars => [GatewayRequestNext]_gatewayRequestVars
    BY DEF Next, gatewayVars
  <1>4. [Next]_gatewayVars => [GatewaySocketNext]_gatewaySocketVars
    BY DEF Next, gatewayVars
  <1> QED BY <1>1, <1>2, <1>3, <1>4, PTL
          DEF Spec, GatewayProxySpec, GatewayRequestSpec, GatewaySocketSpec

(* Breakers, layers and the sweep, in every behaviour of the gateway.      *)
THEOREM GatewayIsSafe == Spec => []GatewayInv /\ ActiveStays
  <1>1. /\ GatewayProxyTypeOK /\ RoutesAreIsolated
        /\ GatewayRequestTypeOK /\ ForwardedIsCounted /\ OnlyAdmittedIsStored
        /\ GatewaySocketTypeOK
        => GatewayInv
    BY DEF GatewayInv
  <1> QED BY <1>1, PartsBehave, ProxiesAreIsolated, LayersCountAndCheck, SweepSparesTheActive, PTL
=============================================================================
