--------------------------- MODULE JwtKeysProofs ---------------------------
(* Proofs about the signing keys, for any number of processes, rotations    *)
(* and calls.                                                               *)
EXTENDS JwtKeys, FiniteSetTheorems, TLAPS

USE KeysAssumption DEF Keys

(* Every variable has its type in the initial states.                       *)
LEMMA InitTypes == Init => TypeOK
BY DEF Init, TypeOK, Empty, Places

(* A query that took effect moves its rotation on or ends it.               *)
LEMMA Answered ==
  ASSUME TypeOK, NEW r \in Rotations, NEW s \in {"retire", "forget"}, Answer(r, s)
  PROVE  /\ rot' \in [Rotations -> [pc : {"idle", "create", "retire", "forget", "done", "failed"},
                                     home : Places, old : Keys \cup {NoKey}]]
         /\ faults' \in 0 .. MaxFaults
         /\ rot'[r].pc \in {s, "failed"}
         /\ \A q \in Rotations : /\ rot'[q].old = rot[q].old /\ rot'[q].home = rot[q].home
                                 /\ q # r => rot'[q] = rot[q]
<1>1. CASE rot' = [rot EXCEPT ![r].pc = s] /\ UNCHANGED faults
  BY <1>1 DEF TypeOK, Places
<1>2. CASE rot' = [rot EXCEPT ![r].pc = "failed"] /\ Fault
  BY <1>2 DEF TypeOK, Places, Fault
<1> QED
  BY <1>1, <1>2 DEF Answer

(* A step keeps the types.                                                  *)
LEMMA NextTypes == TypeOK /\ [Next]_vars => TypeOK'
<1> SUFFICES ASSUME TypeOK, [Next]_vars PROVE TypeOK'
  OBVIOUS
<1> USE DEF TypeOK, table, Places
<1>1. CASE Tick
  BY <1>1 DEF Tick
<1>2. ASSUME NEW r \in Rotations, Rotate(r) PROVE TypeOK'
  <2>1. ASSUME NEW p \in Processes, RotateFinds(r, p) PROVE TypeOK'
    BY <2>1 DEF RotateFinds, FindFirst, Active
  <2>2. CASE RotateCreates(r)
    <3>1. Answer(r, "retire")
      BY <2>2 DEF RotateCreates
    <3> QED
      BY <2>2, <3>1, Answered DEF RotateCreates, NewState
  <2>3. CASE RotateRetires(r)
    <3>1. rot[r].old \in Keys \cup {NoKey}
      OBVIOUS
    <3>2. state' \in [Keys -> {"absent", "active", "retired"}] /\ retiredAt' \in [Keys -> Nat]
      BY <2>3, <3>1 DEF RotateRetires, Answer, Retires
    <3>3. Answer(r, "forget")
      BY <2>3 DEF RotateRetires
    <3> QED
      BY <2>3, <3>2, <3>3, Answered DEF RotateRetires
  <2>4. CASE RotateForgets(r)
    <3>1. Empty \in [key : Keys \cup {NoKey}, expires : 0 .. (MaxTime + Ttl)]
      BY DEF Empty
    <3>2. cache' \in [Processes -> [key : Keys \cup {NoKey}, expires : 0 .. (MaxTime + Ttl)]]
      BY <2>4, <3>1 DEF RotateForgets
    <3>3. rot' \in [Rotations -> [pc : {"idle", "create", "retire", "forget", "done", "failed"},
                                  home : Places, old : Keys \cup {NoKey}]]
      BY <2>4 DEF RotateForgets
    <3> QED
      BY <2>4, <3>2, <3>3 DEF RotateForgets
  <2>5. CASE RotateFails(r)
    BY <2>5 DEF RotateFails, Fault
  <2> QED
    BY <1>2, <2>1, <2>2, <2>3, <2>4, <2>5 DEF Rotate
<1>3. ASSUME NEW c \in Calls, CallReads(c) PROVE TypeOK'
  <2>1. [key |-> call[c].key, expires |-> Expiry]
          \in [key : Keys \cup {NoKey}, expires : 0 .. (MaxTime + Ttl)]
    BY DEF Expiry
  <2>2. cache' \in [Processes -> [key : Keys \cup {NoKey}, expires : 0 .. (MaxTime + Ttl)]]
    BY <1>3, <2>1 DEF CallReads
  <2>3. call' \in [Calls -> [pc : {"idle", "reading", "signed", "failed"},
                             home : Places, key : Keys \cup {NoKey}, at : Nat]]
    <3>1. call' = [call EXCEPT ![c] = [pc |-> "signed", home |-> call[c].home,
                                         key |-> call[c].key, at |-> now]]
      BY <1>3 DEF CallReads
    <3>2. [pc |-> "signed", home |-> call[c].home, key |-> call[c].key, at |-> now]
            \in [pc : {"idle", "reading", "signed", "failed"},
                 home : Places, key : Keys \cup {NoKey}, at : Nat]
      OBVIOUS
    <3> QED
      BY <3>1, <3>2
  <2> QED
    BY <1>3, <2>2, <2>3 DEF CallReads
<1>4. ASSUME NEW c \in Calls, NEW p \in Processes, CallBegins(c, p) PROVE TypeOK'
  <2>1. RotatedAway(p) \in SUBSET (Keys \cup {NoKey})
    BY DEF RotatedAway
  <2>2. ASSUME NEW s \in {"reading", "signed", "failed"}, NEW k \in Keys \cup {NoKey}, Begin(c, p, s, k)
        PROVE /\ call' \in [Calls -> [pc : {"idle", "reading", "signed", "failed"},
                                      home : Places, key : Keys \cup {NoKey}, at : Nat]]
              /\ switched' \in [Calls -> SUBSET (Keys \cup {NoKey})]
    BY <2>1, <2>2 DEF Begin
  <2> QED
    BY <1>4, <2>2 DEF CallBegins, FindFirst, Active
<1>5. ASSUME NEW p \in Processes, Crash(p) PROVE TypeOK'
  <2>1. Empty \in [key : Keys \cup {NoKey}, expires : 0 .. (MaxTime + Ttl)]
    BY DEF Empty
  <2>2. cache' \in [Processes -> [key : Keys \cup {NoKey}, expires : 0 .. (MaxTime + Ttl)]]
    BY <1>5, <2>1 DEF Crash
  <2>3. rot' \in [Rotations -> [pc : {"idle", "create", "retire", "forget", "done", "failed"},
                                home : Places, old : Keys \cup {NoKey}]]
    <3>1. \A r \in Rotations : [rot[r] EXCEPT !.pc = "failed"]
            \in [pc : {"idle", "create", "retire", "forget", "done", "failed"},
                 home : Places, old : Keys \cup {NoKey}]
      OBVIOUS
    <3>2. rot' = [r \in Rotations |-> IF rot[r].home = p /\ rot[r].pc # "done"
                                      THEN [rot[r] EXCEPT !.pc = "failed"] ELSE rot[r]]
      BY <1>5 DEF Crash
    <3> QED
      BY <3>1, <3>2
  <2>4. call' \in [Calls -> [pc : {"idle", "reading", "signed", "failed"},
                             home : Places, key : Keys \cup {NoKey}, at : Nat]]
    BY <1>5 DEF Crash
  <2>5. faults' \in 0 .. MaxFaults
    BY <1>5 DEF Crash, Fault
  <2> QED
    BY <1>5, <2>2, <2>3, <2>4, <2>5 DEF Crash
<1>6. CASE UNCHANGED vars
  BY <1>6 DEF vars
<1> QED
  BY <1>1, <1>2, <1>3, <1>4, <1>5, <1>6 DEF Next

(* Every variable of the key service keeps its type (jwt.ts:22-58,123-134). *)
THEOREM TypeCorrect == Spec => []TypeOK
BY InitTypes, NextTypes, PTL DEF Spec

-----------------------------------------------------------------------------
(* The last key created is active after a step: a rotation that is about to *)
(* retire a key has since created a younger one.                            *)
LEMMA NextLast == TypeOK /\ LastKeyActive /\ [Next]_vars => LastKeyActive'
<1> SUFFICES ASSUME TypeOK, LastKeyActive, [Next]_vars PROVE LastKeyActive'
  OBVIOUS
<1> USE DEF LastKeyActive
<1>1. PICK last \in Keys : serial[last] = created /\ state[last] = "active"
  OBVIOUS
<1>2. ASSUME NEW r \in Rotations, Rotate(r) PROVE LastKeyActive'
  <2>1. ASSUME NEW p \in Processes, RotateFinds(r, p) PROVE LastKeyActive'
    BY <2>1 DEF RotateFinds, FindFirst, Active, TypeOK, table
  <2>2. CASE RotateCreates(r)
    <3>1. /\ serial[r] = 0 /\ serial'[r] = created' /\ state'[r] = "active"
          /\ created' = created + 1 /\ created \in Nat
      BY <2>2 DEF RotateCreates, Answer, NewState, TypeOK
    <3>2. \A k \in Keys \ {r} : serial'[k] = serial[k] /\ state'[k] = state[k]
      BY <2>2 DEF RotateCreates, Answer, NewState, TypeOK
    <3>3. \A k \in Keys : serial[k] \in Nat
      BY DEF TypeOK
    <3>4. \A k \in Keys : serial'[k] <= created' /\ (state'[k] = "absent" <=> serial'[k] = 0)
      BY <3>1, <3>2, <3>3
    <3>5. ASSUME NEW q \in Rotations
          PROVE /\ rot'[q].pc \in {"idle", "create"} => serial'[q] = 0
                /\ rot'[q].old # NoKey => serial'[rot'[q].old] > 0
                /\ rot'[q].pc = "retire" /\ rot'[q].old # NoKey =>
                     serial'[rot'[q].old] < serial'[q]
      <4>1. /\ rot'[q].old = rot[q].old /\ rot[q].old \in Keys \cup {NoKey}
            /\ rot'[q].pc \in {"retire", "failed"} \/ (q # r /\ rot'[q].pc = rot[q].pc)
            /\ rot'[q].pc = "retire" => q = r \/ rot[q].pc = "retire"
        BY <2>2, Answered DEF RotateCreates, TypeOK
      <4>2. rot[q].old # NoKey => rot[q].old # r /\ serial'[rot[q].old] = serial[rot[q].old]
        BY <3>1, <3>2, <4>1
      <4> QED
        BY <3>1, <3>2, <3>3, <4>1, <4>2
    <3> QED
      BY <3>1, <3>4, <3>5
  <2>3. CASE RotateRetires(r)
    <3>1. serial' = serial /\ created' = created /\ rot[r].pc = "retire"
      BY <2>3 DEF RotateRetires, Answer
    <3>2. \A k \in Keys : state'[k] = IF k = rot[r].old THEN "retired" ELSE state[k]
      BY <2>3 DEF RotateRetires, Answer, Retires, TypeOK
    <3>3. /\ rot[r].old # NoKey => serial[rot[r].old] < serial[r] /\ serial[r] <= created
          /\ \A k \in Keys : serial[k] \in Nat
      BY <3>1 DEF TypeOK
    <3>4. last # rot[r].old
      BY <1>1, <3>3 DEF TypeOK
    <3>5. \A q \in Rotations : rot'[q].old = rot[q].old /\ (q # r => rot'[q] = rot[q])
      BY <2>3 DEF RotateRetires, Answer, TypeOK
    <3>6. rot'[r].pc \in {"forget", "failed"}
      BY <2>3, Answered DEF RotateRetires
    <3>7. \E k \in Keys : serial'[k] = created' /\ state'[k] = "active"
      BY <1>1, <3>1, <3>2, <3>4
    <3>8. \A k \in Keys : serial'[k] <= created' /\ (state'[k] = "absent" <=> serial'[k] = 0)
      BY <3>1, <3>2, <3>3
    <3> QED
      BY <3>1, <3>5, <3>6, <3>7, <3>8
  <2>4. CASE RotateForgets(r)
    BY <2>4 DEF RotateForgets, table, TypeOK
  <2>5. CASE RotateFails(r)
    BY <2>5 DEF RotateFails, table, TypeOK
  <2> QED
    BY <1>2, <2>1, <2>2, <2>3, <2>4, <2>5 DEF Rotate
<1>3. ASSUME NEW p \in Processes, Crash(p) PROVE LastKeyActive'
  BY <1>3 DEF Crash, table, TypeOK
<1>4. ASSUME NEW c \in Calls, CallReads(c) \/ \E p \in Processes : CallBegins(c, p)
      PROVE LastKeyActive'
  BY <1>4 DEF CallReads, CallBegins, table
<1>5. CASE Tick \/ UNCHANGED vars
  BY <1>5 DEF Tick, vars, table
<1> QED
  BY <1>2, <1>3, <1>4, <1>5 DEF Next

(* There is an active key at every moment, whatever number of rotations     *)
(* overlap, fail or die on the way (jwt.ts:124-127).                        *)
THEOREM AlwaysAKey == Spec => []SomeKeyActive
<1>1. Init => LastKeyActive
  BY DEF Init, LastKeyActive
<1>2. LastKeyActive => SomeKeyActive
  BY DEF LastKeyActive, SomeKeyActive, Active
<1> QED
  BY <1>1, <1>2, TypeCorrect, NextLast, PTL DEF Spec

-----------------------------------------------------------------------------
(* A step keeps the time a retired key may still be held.                   *)
LEMMA NextHeld == TypeOK /\ LastKeyActive /\ HeldInTime /\ [Next]_vars => HeldInTime'
<1> SUFFICES ASSUME TypeOK, LastKeyActive, HeldInTime, [Next]_vars PROVE HeldInTime'
  OBVIOUS
<1> DEFINE HeldByCache(p) ==
      /\ cache[p].expires <= now + Ttl
      /\ cache[p].key # NoKey =>
           /\ serial[cache[p].key] > 0
           /\ state[cache[p].key] = "retired" =>
                cache[p].expires <= retiredAt[cache[p].key] + Ttl + 1
    HeldByCall(c) == call[c].pc \in {"reading", "signed"} =>
      /\ call[c].key \in Keys /\ serial[call[c].key] > 0 /\ call[c].at <= now
      /\ call[c].pc = "reading" => call[c].home \in Processes /\ now <= call[c].at + 1
      /\ call[c].pc = "reading" /\ state[call[c].key] = "retired" =>
           call[c].at <= retiredAt[call[c].key]
      /\ call[c].pc = "signed" /\ state[call[c].key] = "retired" =>
           call[c].at <= retiredAt[call[c].key] + Ttl
<1>0. /\ \A p \in Processes : HeldByCache(p) /\ cache[p].key \in Keys \cup {NoKey}
      /\ \A p \in Processes : cache[p].expires \in Nat
      /\ \A c \in Calls : HeldByCall(c) /\ call[c].at \in Nat
      /\ now \in Nat /\ retiredAt \in [Keys -> Nat] /\ serial \in [Keys -> Nat]
  BY DEF HeldInTime, TypeOK
<1>1. CASE Tick
  <2>1. now' = now + 1 /\ \A c \in Calls : call[c].pc = "reading" => call[c].at = now
    BY <1>1 DEF Tick
  <2>2. cache' = cache /\ call' = call /\ serial' = serial /\ state' = state /\ retiredAt' = retiredAt
    BY <1>1 DEF Tick, table
  <2>3. \A p \in Processes : HeldByCache(p)'
    BY <1>0, <2>1, <2>2
  <2>4. \A c \in Calls : HeldByCall(c)'
    BY <1>0, <2>1, <2>2
  <2> QED
    BY <2>3, <2>4 DEF HeldInTime
<1>2. ASSUME NEW r \in Rotations, RotateCreates(r) PROVE HeldInTime'
  <2>1. cache' = cache /\ call' = call /\ now' = now /\ retiredAt' = retiredAt
    BY <1>2 DEF RotateCreates, Answer
  <2>2. serial[r] = 0 /\ \A k \in Keys \ {r} : serial'[k] = serial[k] /\ state'[k] = state[k]
    BY <1>2 DEF RotateCreates, Answer, TypeOK, LastKeyActive
  <2>3. \A p \in Processes : HeldByCache(p)'
    BY <1>0, <2>1, <2>2
  <2>4. \A c \in Calls : HeldByCall(c)'
    BY <1>0, <2>1, <2>2
  <2> QED
    BY <2>3, <2>4 DEF HeldInTime
<1>3. ASSUME NEW r \in Rotations, RotateRetires(r) PROVE HeldInTime'
  <2>1. cache' = cache /\ call' = call /\ now' = now /\ serial' = serial
    BY <1>3 DEF RotateRetires, Answer
  <2>2. \A k \in Keys : \/ state'[k] = state[k] /\ retiredAt'[k] = retiredAt[k]
                        \/ retiredAt'[k] = IF state[k] = "retired" THEN retiredAt[k] ELSE now
    BY <1>3 DEF RotateRetires, Answer, Retires, TypeOK
  <2>3. \A p \in Processes : HeldByCache(p)'
    BY <1>0, <2>1, <2>2
  <2>4. \A c \in Calls : HeldByCall(c)'
    BY <1>0, <2>1, <2>2
  <2> QED
    BY <2>3, <2>4 DEF HeldInTime
<1>4. ASSUME NEW r \in Rotations, RotateForgets(r) PROVE HeldInTime'
  <2>1. UNCHANGED <<now, table, call>>
    BY <1>4 DEF RotateForgets
  <2>2. \A p \in Processes : cache'[p] = cache[p] \/ cache'[p] = Empty
    BY <1>4 DEF RotateForgets, TypeOK
  <2>3. \A p \in Processes : HeldByCache(p)'
    BY <1>0, <2>1, <2>2 DEF table, Empty
  <2> QED
    BY <1>0, <2>1, <2>3 DEF HeldInTime, table
<1>5. ASSUME NEW c \in Calls, CallReads(c) PROVE HeldInTime'
  <2>1. UNCHANGED <<now, table>> /\ call[c].pc = "reading"
    BY <1>5 DEF CallReads
  <2>2. \A p \in Processes : cache'[p] = IF p = call[c].home
                                          THEN [key |-> call[c].key, expires |-> now + Ttl]
                                          ELSE cache[p]
    BY <1>5 DEF CallReads, Expiry, TypeOK
  <2>3. /\ \A d \in Calls \ {c} : call'[d] = call[d]
        /\ call'[c].pc = "signed" /\ call'[c].key = call[c].key /\ call'[c].at = now
    BY <1>5 DEF CallReads, TypeOK
  <2>4. \A p \in Processes : HeldByCache(p)'
    BY <1>0, <2>1, <2>2 DEF table
  <2>5. \A d \in Calls : HeldByCall(d)'
    BY <1>0, <2>1, <2>3 DEF table
  <2> QED
    BY <2>4, <2>5 DEF HeldInTime
<1>6. ASSUME NEW c \in Calls, NEW p \in Processes, CallBegins(c, p) PROVE HeldInTime'
  <2>1. UNCHANGED <<now, table, cache>> /\ \A d \in Calls \ {c} : call'[d] = call[d]
    BY <1>6 DEF CallBegins, Begin, TypeOK
  <2>2. call'[c].at = now /\ call'[c].home = p /\
        \/ call'[c].pc = "signed" /\ call'[c].key = cache[p].key /\ Fresh(p)
        \/ call'[c].pc = "failed"
        \/ call'[c].pc = "reading" /\ call'[c].key \in Active
    BY <1>6 DEF CallBegins, Begin, FindFirst, TypeOK
  <2>3. \A k \in Active : k \in Keys /\ serial[k] > 0 /\ state[k] # "retired"
    BY DEF Active, LastKeyActive, TypeOK
  <2>4. \A d \in Calls \ {c} : HeldByCall(d)'
    BY <1>0, <2>1 DEF table
  <2>5. HeldByCall(c)'
    BY <1>0, <2>1, <2>2, <2>3 DEF table, Fresh
  <2>6. \A q \in Processes : HeldByCache(q)'
    BY <1>0, <2>1 DEF table
  <2> QED
    BY <2>4, <2>5, <2>6 DEF HeldInTime
<1>7. ASSUME NEW p \in Processes, Crash(p) PROVE HeldInTime'
  <2>1. UNCHANGED <<now, table>> /\ \A q \in Processes : cache'[q] = cache[q] \/ cache'[q] = Empty
    BY <1>7 DEF Crash, TypeOK
  <2>2. \A c \in Calls : call'[c] = call[c] \/ call'[c].pc = "failed"
    BY <1>7 DEF Crash, TypeOK
  <2>3. \A q \in Processes : HeldByCache(q)'
    BY <1>0, <2>1 DEF table, Empty
  <2>4. \A c \in Calls : HeldByCall(c)'
    BY <1>0, <2>1, <2>2 DEF table
  <2> QED
    BY <2>3, <2>4 DEF HeldInTime
<1>8. ASSUME UNCHANGED <<now, table, cache, call>> PROVE HeldInTime'
  BY <1>8 DEF HeldInTime, table
<1> QED
  BY <1>1, <1>2, <1>3, <1>4, <1>5, <1>6, <1>7, <1>8
     DEF Next, Rotate, RotateFinds, RotateFails, vars

(* No token is signed with a key retired more than a cache lifetime ago, in *)
(* any process (jwt.ts:44-48).                                              *)
THEOREM RetiredKeysRunOut == Spec => []RetiredKeyRunsOut
<1>1. Init => LastKeyActive /\ HeldInTime
  BY DEF Init, LastKeyActive, HeldInTime, Empty
<1>2. HeldInTime => RetiredKeyRunsOut
  BY DEF HeldInTime, RetiredKeyRunsOut
<1> QED
  BY <1>1, <1>2, TypeCorrect, NextLast, NextHeld, PTL DEF Spec

-----------------------------------------------------------------------------
(* What a rotation has done to the table by the time it stands somewhere:   *)
(* it has read a key, has retired it, and has a row of its own.             *)
RotationStages ==
  \A r \in Rotations :
    /\ rot[r].pc = "idle" => rot[r].old = NoKey
    /\ rot[r].pc \in {"create", "retire", "forget", "done"} => rot[r].old \in Keys
    /\ rot[r].pc \in {"retire", "forget", "done"} => state[r] # "absent"
    /\ rot[r].pc \in {"forget", "done"} => state[rot[r].old] = "retired"

(* The rows of the table.                                                   *)
Rows == {k \in Keys : state[k] # "absent"}

(* The seed's row is there, there are finitely many, and a retired one was  *)
(* retired by a rotation that had read it.                                  *)
RowsOfRotations ==
  /\ Seed \in Rows /\ IsFiniteSet(Rows)
  /\ \A k \in Keys : state[k] = "retired" =>
       retiredAt[k] <= now /\ \E r \in Rotations : rot[r].old = k

(* A call of process p has signed with k since k was retired.               *)
SignedLate(d, p, k) ==
  /\ call[d].pc = "signed" /\ call[d].home = p
  /\ call[d].key = k /\ call[d].at >= retiredAt[k]

(* A key that a process has rotated away is in its cache again only if a    *)
(* late read has put it there.                                              *)
CacheNeedsLateRead ==
  \A p \in Processes :
    cache[p].key # NoKey /\ cache[p].key \in RotatedAway(p) =>
      \E d \in Calls : SignedLate(d, p, cache[p].key)

(* What a process had rotated away before a call is retired, and a call     *)
(* that reads the table reads another key.                                  *)
SwitchedAreRetired ==
  \A c \in Calls :
    /\ \A k \in switched[c] : k \in Keys /\ state[k] = "retired"
    /\ call[c].pc = "reading" => call[c].key \notin switched[c]

RotationIInv ==
  /\ TypeOK /\ LastKeyActive /\ HeldInTime
  /\ RotationStages /\ RowsOfRotations
  /\ CacheNeedsLateRead /\ SwitchedAreRetired /\ OldKeyNeedsLateRead

(* A retired key stays retired, since when it was, and no row goes away.    *)
LEMMA RetiredStays ==
  ASSUME TypeOK, LastKeyActive, [Next]_vars, NEW k \in Keys
  PROVE  /\ state[k] # "absent" => state'[k] # "absent"
         /\ state[k] = "retired" => state'[k] = "retired" /\ retiredAt'[k] = retiredAt[k]
<1>1. ASSUME NEW r \in Rotations, RotateCreates(r) PROVE state[r] = "absent"
  BY <1>1 DEF RotateCreates, Answer, LastKeyActive
<1>2. ASSUME NEW r \in Rotations, RotateCreates(r)
      PROVE retiredAt' = retiredAt /\ state' = [state EXCEPT ![r] = "active"]
  BY <1>2 DEF RotateCreates, Answer, NewState
<1>3. ASSUME NEW r \in Rotations, RotateRetires(r)
      PROVE \/ UNCHANGED <<state, retiredAt>>
            \/ /\ state' = [state EXCEPT ![rot[r].old] = "retired"]
               /\ retiredAt' = [retiredAt EXCEPT ![rot[r].old] =
                                  IF state[rot[r].old] = "retired" THEN @ ELSE now]
  BY <1>3 DEF RotateRetires, Answer, Retires
<1>4. CASE UNCHANGED <<state, retiredAt>>
  BY <1>4
<1>5. ASSUME NEW r \in Rotations, RotateCreates(r) \/ RotateRetires(r)
      PROVE /\ state[k] # "absent" => state'[k] # "absent"
            /\ state[k] = "retired" => state'[k] = "retired" /\ retiredAt'[k] = retiredAt[k]
  BY <1>1, <1>2, <1>3, <1>5 DEF TypeOK
<1>6. \/ UNCHANGED <<state, retiredAt>>
      \/ \E r \in Rotations : RotateCreates(r) \/ RotateRetires(r)
  BY DEF Next, Rotate, vars, table, Tick, RotateFinds, RotateForgets, RotateFails, CallReads,
         CallBegins, Crash
<1> QED
  BY <1>4, <1>5, <1>6

(* A call that has signed is over.                                          *)
LEMMA SignedStays ==
  ASSUME TypeOK, [Next]_vars, NEW d \in Calls, call[d].pc = "signed"
  PROVE  call'[d] = call[d]
<1>1. ASSUME NEW c \in Calls, CallReads(c) PROVE call'[d] = call[d]
  BY <1>1 DEF CallReads, TypeOK
<1>2. ASSUME NEW c \in Calls, NEW p \in Processes, CallBegins(c, p) PROVE call'[d] = call[d]
  BY <1>2 DEF CallBegins, Begin, TypeOK
<1>3. ASSUME NEW p \in Processes, Crash(p) PROVE call'[d] = call[d]
  BY <1>3 DEF Crash, TypeOK
<1>4. CASE call' = call
  BY <1>4
<1> QED
  BY <1>1, <1>2, <1>3, <1>4
     DEF Next, Rotate, vars, Tick, RotateFinds, RotateCreates, Answer, RotateRetires, RotateForgets,
         RotateFails

(* A late signature stays one.                                              *)
LEMMA LateStays ==
  ASSUME TypeOK, LastKeyActive, [Next]_vars, NEW d \in Calls, NEW p, NEW k \in Keys,
         state[k] = "retired", SignedLate(d, p, k)
  PROVE  SignedLate(d, p, k)'
<1>1. call'[d] = call[d]
  BY SignedStays DEF SignedLate
<1>2. retiredAt'[k] = retiredAt[k]
  BY RetiredStays
<1> QED
  BY <1>1, <1>2 DEF SignedLate

(* A step keeps what rotations have done.                                   *)
LEMMA NextStages ==
  TypeOK /\ LastKeyActive /\ RotationStages /\ [Next]_vars => RotationStages'
<1> SUFFICES ASSUME TypeOK, LastKeyActive, RotationStages, [Next]_vars,
                    NEW q \in Rotations
             PROVE  /\ rot'[q].pc = "idle" => rot'[q].old = NoKey
                    /\ rot'[q].pc \in {"create", "retire", "forget", "done"} => rot'[q].old \in Keys
                    /\ rot'[q].pc \in {"retire", "forget", "done"} => state'[q] # "absent"
                    /\ rot'[q].pc \in {"forget", "done"} => state'[rot'[q].old] = "retired"
  BY DEF RotationStages
<1> DEFINE Goal == /\ rot'[q].pc = "idle" => rot'[q].old = NoKey
                   /\ rot'[q].pc \in {"create", "retire", "forget", "done"} => rot'[q].old \in Keys
                   /\ rot'[q].pc \in {"retire", "forget", "done"} => state'[q] # "absent"
                   /\ rot'[q].pc \in {"forget", "done"} => state'[rot'[q].old] = "retired"
<1>0. /\ rot[q].pc = "idle" => rot[q].old = NoKey
      /\ rot[q].pc \in {"create", "retire", "forget", "done"} => rot[q].old \in Keys
      /\ rot[q].pc \in {"retire", "forget", "done"} => state[q] # "absent"
      /\ rot[q].pc \in {"forget", "done"} => state[rot[q].old] = "retired"
  BY DEF RotationStages
<1>s. \A k \in Keys : /\ state[k] # "absent" => state'[k] # "absent"
                      /\ state[k] = "retired" => state'[k] = "retired"
  BY RetiredStays
<1>k. CASE rot'[q] = rot[q]
  BY <1>0, <1>s, <1>k
<1>f. CASE rot'[q].pc = "failed"
  BY <1>f
<1>1. ASSUME NEW r \in Rotations, NEW p \in Processes, RotateFinds(r, p) PROVE Goal
  <2>1. Active # {}
    BY DEF LastKeyActive, Active
  <2>2. \E k \in Active : rot' = [rot EXCEPT ![r] = [pc |-> "create", home |-> p, old |-> k]]
    BY <1>1, <2>1 DEF RotateFinds, FindFirst
  <2>3. PICK k \in Active : rot' = [rot EXCEPT ![r] = [pc |-> "create", home |-> p, old |-> k]]
    BY <2>2
  <2>4. CASE q = r
    BY <2>3, <2>4 DEF TypeOK, Active
  <2>5. CASE q # r
    BY <2>3, <2>5, <1>k DEF TypeOK
  <2> QED
    BY <2>4, <2>5
<1>2. ASSUME NEW r \in Rotations, RotateCreates(r) PROVE Goal
  <2>1. CASE q = r
    <3>1. /\ rot'[q].pc \in {"retire", "failed"}
          /\ rot'[q].old = rot[q].old /\ rot[q].pc = "create"
      BY <1>2, <2>1, Answered DEF RotateCreates
    <3>2. state'[q] = "active"
      BY <1>2, <2>1 DEF RotateCreates, Answer, NewState, TypeOK
    <3> QED
      BY <3>1, <3>2, <1>0
  <2>2. CASE q # r
    <3>1. rot'[q] = rot[q]
      BY <1>2, <2>2 DEF RotateCreates, Answer, TypeOK
    <3> QED
      BY <3>1, <1>k
  <2> QED
    BY <2>1, <2>2
<1>3. ASSUME NEW r \in Rotations, RotateRetires(r) PROVE Goal
  <2>1. CASE q = r
    <3>1. /\ rot'[q].pc \in {"forget", "failed"}
          /\ rot'[q].old = rot[q].old /\ rot[q].pc = "retire"
      BY <1>3, <2>1, Answered DEF RotateRetires
    <3>2. rot[q].old \in Keys /\ rot[q].old # NoKey
      BY <3>1, <1>0
    <3>3. state' = [state EXCEPT ![rot[q].old] = "retired"]
      BY <1>3, <2>1, <3>2 DEF RotateRetires, Answer, Retires
    <3>4. state'[rot[q].old] = "retired"
      BY <3>2, <3>3 DEF TypeOK
    <3> QED
      BY <3>1, <3>2, <3>4, <1>0, <1>s
  <2>2. CASE q # r
    <3>1. rot'[q] = rot[q]
      BY <1>3, <2>2 DEF RotateRetires, Answer, TypeOK
    <3> QED
      BY <3>1, <1>k
  <2> QED
    BY <2>1, <2>2
<1>4. ASSUME NEW r \in Rotations, RotateForgets(r) PROVE Goal
  <2>1. CASE q = r
    <3>1. rot'[q].pc = "done" /\ rot'[q].old = rot[q].old /\ rot[q].pc = "forget"
      BY <1>4, <2>1 DEF RotateForgets, TypeOK
    <3> QED
      BY <3>1, <1>0, <1>s
  <2>2. CASE q # r
    <3>1. rot'[q] = rot[q]
      BY <1>4, <2>2 DEF RotateForgets, TypeOK
    <3> QED
      BY <3>1, <1>k
  <2> QED
    BY <2>1, <2>2
<1>5. ASSUME NEW r \in Rotations, RotateFails(r) PROVE Goal
  <2>1. rot'[q] = rot[q] \/ rot'[q].pc = "failed"
    BY <1>5 DEF RotateFails, TypeOK
  <2> QED
    BY <2>1, <1>k, <1>f
<1>6. ASSUME NEW p \in Processes, Crash(p) PROVE Goal
  <2>1. rot'[q] = rot[q] \/ rot'[q].pc = "failed"
    BY <1>6 DEF Crash, TypeOK
  <2> QED
    BY <2>1, <1>k, <1>f
<1>7. CASE rot' = rot
  BY <1>7, <1>k
<1> QED
  BY <1>1, <1>2, <1>3, <1>4, <1>5, <1>6, <1>7
     DEF Next, Rotate, vars, Tick, CallReads, CallBegins

(* A rotation keeps the key it read.                                        *)
LEMMA OldStays ==
  ASSUME TypeOK, RotationStages, [Next]_vars, NEW q \in Rotations, rot[q].old \in Keys
  PROVE  rot'[q].old = rot[q].old
<1>1. ASSUME NEW r \in Rotations, NEW p \in Processes, RotateFinds(r, p)
      PROVE rot'[q].old = rot[q].old
  <2>1. q # r
    BY <1>1 DEF RotateFinds, RotationStages
  <2> QED
    BY <1>1, <2>1 DEF RotateFinds, TypeOK
<1>2. ASSUME NEW r \in Rotations, RotateCreates(r) PROVE rot'[q].old = rot[q].old
  BY <1>2 DEF RotateCreates, Answer, TypeOK
<1>3. ASSUME NEW r \in Rotations, RotateRetires(r) PROVE rot'[q].old = rot[q].old
  BY <1>3 DEF RotateRetires, Answer, TypeOK
<1>4. ASSUME NEW r \in Rotations, RotateForgets(r) PROVE rot'[q].old = rot[q].old
  BY <1>4 DEF RotateForgets, TypeOK
<1>5. ASSUME NEW r \in Rotations, RotateFails(r) PROVE rot'[q].old = rot[q].old
  BY <1>5 DEF RotateFails, TypeOK
<1>6. ASSUME NEW p \in Processes, Crash(p) PROVE rot'[q].old = rot[q].old
  BY <1>6 DEF Crash, TypeOK
<1>7. CASE rot' = rot
  BY <1>7
<1> QED
  BY <1>1, <1>2, <1>3, <1>4, <1>5, <1>6, <1>7
     DEF Next, Rotate, vars, Tick, CallReads, CallBegins

(* A step adds one row at most, and only a rotation that read a key retires *)
(* it.                                                                      *)
LEMMA NextRows ==
  TypeOK /\ LastKeyActive /\ RotationStages /\ RowsOfRotations /\ [Next]_vars => RowsOfRotations'
<1> SUFFICES ASSUME TypeOK, LastKeyActive, RotationStages, RowsOfRotations, [Next]_vars
             PROVE  RowsOfRotations'
  OBVIOUS
<1>1. /\ \A k \in Keys : state[k] # "absent" => state'[k] # "absent"
      /\ \A k \in Keys : state[k] = "retired" => retiredAt'[k] = retiredAt[k]
      /\ \A q \in Rotations : rot[q].old \in Keys => rot'[q].old = rot[q].old
  BY RetiredStays, OldStays
<1>2. now \in Nat /\ now' \in Nat /\ now <= now'
  <2>1. TypeOK'
    BY NextTypes
  <2>2. now' = now \/ now' = now + 1
    BY DEF Next, Rotate, vars, Tick, RotateFinds, RotateCreates, Answer, RotateRetires, RotateForgets,
           RotateFails, CallReads, CallBegins, Crash
  <2> QED
    BY <2>1, <2>2 DEF TypeOK
<1>3. Seed \in Rows'
  BY <1>1 DEF RowsOfRotations, Rows
<1>4. ASSUME NEW k \in Keys, state[k] = "retired"
      PROVE retiredAt'[k] <= now' /\ \E r \in Rotations : rot'[r].old = k
  <2>1. retiredAt[k] <= now /\ \E r \in Rotations : rot[r].old = k
    BY <1>4 DEF RowsOfRotations
  <2>2. retiredAt[k] \in Nat
    BY DEF TypeOK
  <2> QED
    BY <1>1, <1>2, <1>4, <2>1, <2>2
<1>5. ASSUME NEW r \in Rotations, RotateCreates(r) PROVE RowsOfRotations'
  <2>1. state' = [state EXCEPT ![r] = "active"]
    BY <1>5 DEF RotateCreates, Answer, NewState
  <2>2. Rows' = Rows \cup {r}
    BY <2>1 DEF Rows, TypeOK
  <2>3. IsFiniteSet(Rows')
    BY <2>2, FS_AddElement DEF RowsOfRotations
  <2>4. \A k \in Keys : state'[k] = "retired" => state[k] = "retired"
    BY <2>1 DEF TypeOK
  <2> QED
    BY <1>3, <1>4, <2>3, <2>4 DEF RowsOfRotations
<1>6. ASSUME NEW r \in Rotations, RotateRetires(r) PROVE RowsOfRotations'
  <2>1. rot[r].old \in Keys /\ rot[r].old # NoKey
    BY <1>6 DEF RotateRetires, Answer, RotationStages
  <2>2. /\ state' = [state EXCEPT ![rot[r].old] = "retired"]
        /\ retiredAt' = [retiredAt EXCEPT ![rot[r].old] =
                           IF state[rot[r].old] = "retired" THEN @ ELSE now]
    BY <1>6, <2>1 DEF RotateRetires, Answer, Retires
  <2>3. state[rot[r].old] # "absent"
    BY <2>1 DEF LastKeyActive
  <2>4. Rows' = Rows
    BY <2>1, <2>2, <2>3 DEF Rows, TypeOK
  <2>5. ASSUME NEW k \in Keys, state'[k] = "retired", state[k] # "retired"
        PROVE retiredAt'[k] <= now' /\ \E q \in Rotations : rot'[q].old = k
    <3>1. k = rot[r].old /\ retiredAt'[k] = now
      BY <2>1, <2>2, <2>5 DEF TypeOK
    <3> QED
      BY <3>1, <1>1, <1>2
  <2> QED
    BY <1>3, <1>4, <2>4, <2>5 DEF RowsOfRotations
<1>7. CASE UNCHANGED <<state, retiredAt>>
  <2>1. Rows' = Rows
    BY <1>7 DEF Rows
  <2> QED
    BY <1>3, <1>4, <1>7, <2>1 DEF RowsOfRotations
<1> QED
  BY <1>5, <1>6, <1>7
     DEF Next, Rotate, vars, table, Tick, RotateFinds, RotateForgets, RotateFails, CallReads,
         CallBegins, Crash

(* Only the end of a rotation makes its process one that rotated a key away.*)
LEMMA RotatedAwayBy ==
  ASSUME TypeOK, [Next]_vars, NEW p \in Processes
  PROVE  \/ RotatedAway(p)' = RotatedAway(p)
         \/ \E r \in Rotations : RotateForgets(r) /\ rot[r].home = p
<1> SUFFICES ASSUME \A r \in Rotations : RotateForgets(r) => rot[r].home # p
             PROVE  RotatedAway(p)' = RotatedAway(p)
  OBVIOUS
<1> DEFINE Gone(q) == rot[q].pc = "done" /\ rot[q].home = p
<1> SUFFICES ASSUME NEW q \in Rotations
             PROVE  (Gone(q)' <=> Gone(q)) /\ (Gone(q) => rot'[q].old = rot[q].old)
  <2>1. {q \in Rotations : Gone(q)'} = {q \in Rotations : Gone(q)}
    OBVIOUS
  <2>2. RotatedAway(p)' = {rot'[q].old : q \in {r \in Rotations : Gone(r)'}}
    BY DEF RotatedAway
  <2>3. RotatedAway(p) = {rot[q].old : q \in {r \in Rotations : Gone(r)}}
    BY DEF RotatedAway
  <2> QED
    BY <2>1, <2>2, <2>3
<1>1. ASSUME NEW r \in Rotations, NEW o \in Processes, RotateFinds(r, o)
      PROVE (Gone(q)' <=> Gone(q)) /\ (Gone(q) => rot'[q].old = rot[q].old)
  BY <1>1 DEF RotateFinds, TypeOK
<1>2. ASSUME NEW r \in Rotations, RotateCreates(r)
      PROVE (Gone(q)' <=> Gone(q)) /\ (Gone(q) => rot'[q].old = rot[q].old)
  <2>1. rot'[r].pc # "done" /\ rot[r].pc # "done"
    BY <1>2, Answered DEF RotateCreates
  <2> QED
    BY <1>2, <2>1, Answered DEF RotateCreates
<1>3. ASSUME NEW r \in Rotations, RotateRetires(r)
      PROVE (Gone(q)' <=> Gone(q)) /\ (Gone(q) => rot'[q].old = rot[q].old)
  <2>1. rot'[r].pc # "done" /\ rot[r].pc # "done"
    BY <1>3, Answered DEF RotateRetires
  <2> QED
    BY <1>3, <2>1, Answered DEF RotateRetires
<1>4. ASSUME NEW r \in Rotations, RotateForgets(r)
      PROVE (Gone(q)' <=> Gone(q)) /\ (Gone(q) => rot'[q].old = rot[q].old)
  BY <1>4 DEF RotateForgets, TypeOK
<1>5. ASSUME NEW r \in Rotations, RotateFails(r)
      PROVE (Gone(q)' <=> Gone(q)) /\ (Gone(q) => rot'[q].old = rot[q].old)
  BY <1>5 DEF RotateFails, TypeOK
<1>6. ASSUME NEW o \in Processes, Crash(o)
      PROVE (Gone(q)' <=> Gone(q)) /\ (Gone(q) => rot'[q].old = rot[q].old)
  BY <1>6 DEF Crash, TypeOK
<1>7. CASE rot' = rot
  BY <1>7
<1> QED
  BY <1>1, <1>2, <1>3, <1>4, <1>5, <1>6, <1>7
     DEF Next, Rotate, vars, Tick, CallReads, CallBegins

(* What a process has rotated away is retired.                              *)
LEMMA AwayIsRetired ==
  ASSUME RotationStages, NEW p \in Processes, NEW k \in RotatedAway(p)
  PROVE  k \in Keys /\ state[k] = "retired"
BY DEF RotatedAway, RotationStages

(* A key comes into a cache by a read, and one that was rotated away by     *)
(* then comes with a late signature.                                        *)
LEMMA NextCache ==
  RotationIInv /\ [Next]_vars => CacheNeedsLateRead'
<1> SUFFICES ASSUME RotationIInv, [Next]_vars, NEW p \in Processes,
                    cache'[p].key # NoKey, cache'[p].key \in RotatedAway(p)'
             PROVE  \E d \in Calls : SignedLate(d, p, cache[p].key)'
  BY DEF CacheNeedsLateRead, SignedLate
<1> USE DEF RotationIInv
<1>0. TypeOK' /\ RotationStages'
  BY NextTypes, NextStages
<1>1. cache'[p].key \in Keys /\ state'[cache'[p].key] = "retired"
  BY <1>0 DEF RotatedAway, RotationStages
<1>2. CASE cache'[p] = cache[p] /\ RotatedAway(p)' = RotatedAway(p)
  <2>1. PICK d \in Calls : SignedLate(d, p, cache[p].key)
    BY <1>2 DEF CacheNeedsLateRead
  <2>2. state[cache[p].key] = "retired" /\ cache[p].key \in Keys
    BY <1>2, AwayIsRetired
  <2>3. SignedLate(d, p, cache[p].key)'
    <3> DEFINE k == cache[p].key
    <3>1. \A m \in Keys : state[m] = "retired" /\ SignedLate(d, p, m) =>
            /\ call'[d].pc = "signed" /\ call'[d].home = p
            /\ call'[d].key = m /\ call'[d].at >= retiredAt'[m]
      BY LateStays DEF SignedLate
    <3> QED
      BY <3>1, <2>1, <2>2, <1>2 DEF SignedLate
  <2> QED
    BY <2>3
<1>3. ASSUME NEW c \in Calls, CallReads(c), call[c].home = p
      PROVE \E d \in Calls : SignedLate(d, p, cache[p].key)'
  <2>1. /\ call'[c].pc = "signed" /\ call'[c].home = p
        /\ call'[c].key = call[c].key /\ call'[c].at = now
    BY <1>3 DEF CallReads, TypeOK
  <2>2. cache'[p].key = call[c].key
    BY <1>3 DEF CallReads, TypeOK
  <2>3. UNCHANGED <<state, retiredAt>>
    BY <1>3 DEF CallReads, table
  <2>4. retiredAt[cache'[p].key] <= now
    BY <1>1, <2>3 DEF RowsOfRotations
  <2> QED
    BY <2>1, <2>2, <2>3, <2>4, <1>1 DEF SignedLate, TypeOK
<1>4. ASSUME NEW r \in Rotations, RotateForgets(r), rot[r].home = p PROVE FALSE
  BY <1>4 DEF RotateForgets, Empty, TypeOK
<1>5. \/ cache'[p] = cache[p]
      \/ \E r \in Rotations : RotateForgets(r) /\ rot[r].home = p
      \/ \E c \in Calls : CallReads(c) /\ call[c].home = p
  <2>1. ASSUME NEW r \in Rotations, RotateForgets(r) PROVE rot[r].home = p \/ cache'[p] = cache[p]
    BY <2>1 DEF RotateForgets, TypeOK
  <2>2. ASSUME NEW c \in Calls, CallReads(c) PROVE call[c].home = p \/ cache'[p] = cache[p]
    BY <2>2 DEF CallReads, TypeOK
  <2>3. ASSUME NEW o \in Processes, Crash(o) PROVE cache'[p] = cache[p]
    BY <2>3 DEF Crash, Empty, TypeOK
  <2>4. CASE cache' = cache
    BY <2>4
  <2> QED
    BY <2>1, <2>2, <2>3, <2>4
       DEF Next, Rotate, vars, Tick, RotateFinds, RotateCreates, Answer, RotateRetires, RotateFails,
           CallBegins
<1> QED
  BY <1>2, <1>3, <1>4, <1>5, RotatedAwayBy

(* What a call began with, and how it came to sign.                         *)
LEMMA CallSteps ==
  ASSUME TypeOK, [Next]_vars, NEW c \in Calls
  PROVE  \/ call'[c] = call[c] /\ switched'[c] = switched[c]
         \/ call'[c].pc = "failed" /\ switched'[c] = switched[c]
         \/ CallReads(c) /\ call'[c].key = call[c].key /\ switched'[c] = switched[c]
         \/ \E p \in Processes : CallBegins(c, p)
<1>1. ASSUME NEW d \in Calls, CallReads(d) PROVE switched' = switched /\ (d # c => call'[c] = call[c])
                                                 /\ (d = c => call'[c].key = call[c].key)
  BY <1>1 DEF CallReads, TypeOK
<1>2. ASSUME NEW d \in Calls, NEW p \in Processes, CallBegins(d, p), d # c
      PROVE call'[c] = call[c] /\ switched'[c] = switched[c]
  BY <1>2 DEF CallBegins, Begin, TypeOK
<1>3. ASSUME NEW p \in Processes, Crash(p)
      PROVE switched' = switched /\ (call'[c] = call[c] \/ call'[c].pc = "failed")
  BY <1>3 DEF Crash, TypeOK
<1>4. CASE UNCHANGED <<call, switched>>
  BY <1>4
<1> QED
  BY <1>1, <1>2, <1>3, <1>4
     DEF Next, Rotate, vars, Tick, RotateFinds, RotateCreates, Answer, RotateRetires, RotateForgets,
         RotateFails

(* How a call begins: with the cached key, or with a read of an active one. *)
LEMMA Begins ==
  ASSUME TypeOK, NEW c \in Calls, NEW p \in Processes, CallBegins(c, p)
  PROVE  /\ call[c].pc = "idle" /\ UNCHANGED <<state, retiredAt>>
         /\ switched'[c] = RotatedAway(p) /\ call'[c].home = p
         /\ \/ call'[c].pc = "signed" /\ call'[c].key = cache[p].key /\ cache[p].key # NoKey
            \/ call'[c].pc = "failed"
            \/ call'[c].pc = "reading" /\ call'[c].key \in Active
BY DEF CallBegins, Begin, Fresh, FindFirst, TypeOK, table

(* What is rotated away is retired when a call begins, and stays so.        *)
LEMMA NextSwitched == RotationIInv /\ [Next]_vars => SwitchedAreRetired'
<1> SUFFICES ASSUME RotationIInv, [Next]_vars, NEW c \in Calls
             PROVE  /\ \A k \in switched'[c] : k \in Keys /\ state'[k] = "retired"
                    /\ call'[c].pc = "reading" => call'[c].key \notin switched'[c]
  BY DEF SwitchedAreRetired
<1> USE DEF RotationIInv
<1>1. \A k \in Keys : state[k] = "retired" => state'[k] = "retired"
  BY RetiredStays
<1>2. CASE switched'[c] = switched[c] /\ (call'[c] = call[c] \/ call'[c].pc # "reading")
  BY <1>1, <1>2 DEF SwitchedAreRetired
<1>3. ASSUME NEW p \in Processes, CallBegins(c, p)
      PROVE /\ \A k \in switched'[c] : k \in Keys /\ state'[k] = "retired"
            /\ call'[c].pc = "reading" => call'[c].key \notin switched'[c]
  BY <1>3, Begins, AwayIsRetired DEF Active
<1>4. CASE CallReads(c) /\ switched'[c] = switched[c]
  <2>1. call'[c].pc = "signed"
    BY <1>4 DEF CallReads, TypeOK
  <2> QED
    BY <2>1, <1>2, <1>4
<1> QED
  BY <1>2, <1>3, <1>4, CallSteps

(* A call that signs with a rotated key had it from the cache, where it is  *)
(* only after another call has signed with it late.                         *)
LEMMA NextOldKey == RotationIInv /\ [Next]_vars => OldKeyNeedsLateRead'
<1> SUFFICES ASSUME RotationIInv, [Next]_vars, NEW c \in Calls,
                    call'[c].pc = "signed", call'[c].key \in switched'[c]
             PROVE  \E d \in Calls \ {c} :
                      /\ call'[d].pc = "signed" /\ call'[d].home = call'[c].home
                      /\ call'[d].key = call'[c].key /\ call'[d].at >= retiredAt'[call'[c].key]
  BY DEF OldKeyNeedsLateRead
<1> USE DEF RotationIInv
<1>0. \A d \in Calls, k \in Keys : \A p :
        state[k] = "retired" /\ SignedLate(d, p, k) =>
          /\ call'[d].pc = "signed" /\ call'[d].home = p
          /\ call'[d].key = k /\ call'[d].at >= retiredAt'[k]
  <2> SUFFICES ASSUME NEW d \in Calls, NEW p, NEW k \in Keys,
                      state[k] = "retired", SignedLate(d, p, k)
               PROVE  SignedLate(d, p, k)'
    BY DEF SignedLate
  <2> QED
    BY LateStays
<1>1. CASE call'[c] = call[c] /\ switched'[c] = switched[c]
  <2>1. PICK d \in Calls \ {c} : SignedLate(d, call[c].home, call[c].key)
    BY <1>1 DEF OldKeyNeedsLateRead, SignedLate
  <2>2. call[c].key \in Keys /\ state[call[c].key] = "retired"
    BY <1>1 DEF SwitchedAreRetired
  <2>3. /\ call'[d].pc = "signed" /\ call'[d].home = call'[c].home
        /\ call'[d].key = call'[c].key /\ call'[d].at >= retiredAt'[call'[c].key]
    BY <1>0, <1>1, <2>1, <2>2
  <2> QED
    BY <2>3
<1>2. ASSUME NEW p \in Processes, CallBegins(c, p)
      PROVE \E d \in Calls \ {c} :
                      /\ call'[d].pc = "signed" /\ call'[d].home = call'[c].home
                      /\ call'[d].key = call'[c].key /\ call'[d].at >= retiredAt'[call'[c].key]
  <2>1. /\ call[c].pc = "idle" /\ call'[c].home = p
        /\ call'[c].key = cache[p].key /\ cache[p].key # NoKey /\ cache[p].key \in RotatedAway(p)
    BY <1>2, Begins
  <2>2. PICK d \in Calls : SignedLate(d, p, cache[p].key)
    BY <2>1 DEF CacheNeedsLateRead
  <2>3. d # c
    BY <2>1, <2>2 DEF SignedLate
  <2>4. cache[p].key \in Keys /\ state[cache[p].key] = "retired"
    BY <2>1, AwayIsRetired
  <2>5. /\ call'[d].pc = "signed" /\ call'[d].home = call'[c].home
        /\ call'[d].key = call'[c].key /\ call'[d].at >= retiredAt'[call'[c].key]
    BY <1>0, <2>1, <2>2, <2>4
  <2> QED
    BY <2>3, <2>5
<1>3. ASSUME CallReads(c), call'[c].key = call[c].key, switched'[c] = switched[c] PROVE FALSE
  BY <1>3 DEF CallReads, SwitchedAreRetired
<1> QED
  BY <1>1, <1>2, <1>3, CallSteps

-----------------------------------------------------------------------------
(* Where every rotation has ended and no two had read the same key, the     *)
(* rotations are as many as the retired keys, so that one row is left.      *)
LEMMA OneKeyIsLeft ==
  RotationStages /\ RowsOfRotations /\ LastKeyActive /\ TypeOK => OneKeyAfterRotations
<1> SUFFICES ASSUME RotationStages, RowsOfRotations, LastKeyActive, TypeOK,
                    \A r \in Rotations : rot[r].pc \in {"idle", "done"},
                    \A r, s \in Rotations : rot[r].old = rot[s].old => r = s \/ rot[r].pc = "idle"
             PROVE  Cardinality(Active) = 1
  BY DEF OneKeyAfterRotations
<1> DEFINE Done == {r \in Rotations : rot[r].pc = "done"}
           Retired == {k \in Keys : state[k] = "retired"}
           f == [r \in Done |-> rot[r].old]
<1>1. Rows = Done \cup {Seed} /\ Seed \notin Done
  BY DEF Rows, RotationStages, RowsOfRotations, LastKeyActive
<1>2. IsFiniteSet(Done)
  <2>1. Done \in SUBSET Rows
    BY <1>1
  <2> QED
    BY <2>1, FS_Subset DEF RowsOfRotations
<1>3. f \in [Done -> Retired]
  BY DEF RotationStages
<1>4. f \in Bijection(Done, Retired)
  <2>1. \A r, s \in Done : f[r] = f[s] => r = s
    OBVIOUS
  <2>2. ASSUME NEW k \in Retired PROVE \E r \in Done : f[r] = k
    BY DEF RowsOfRotations, RotationStages
  <2> QED
    BY <1>3, <2>1, <2>2 DEF Bijection, Injection, Surjection, IsInjective
<1>5. IsFiniteSet(Retired) /\ Cardinality(Retired) = Cardinality(Done)
  BY <1>2, <1>4, FS_Bijection DEF ExistsBijection
<1>6. Cardinality(Rows) = Cardinality(Done) + 1
  BY <1>1, <1>2, FS_AddElement
<1>7. Active = Rows \ Retired /\ Rows \cap Retired = Retired
  BY DEF Active, Rows, TypeOK
<1>8. Cardinality(Active) = Cardinality(Rows) - Cardinality(Retired)
  <2>1. IsFiniteSet(Rows)
    BY DEF RowsOfRotations
  <2>2. Cardinality(Rows \ Retired) = Cardinality(Rows) - Cardinality(Rows \cap Retired)
    BY <2>1, FS_Difference
  <2> QED
    BY <1>7, <2>2
<1>9. Cardinality(Done) \in Nat
  BY <1>2, FS_CardinalityType
<1> QED
  BY <1>5, <1>6, <1>8, <1>9

(* RotationIInv is an invariant of the key service.                         *)
THEOREM RotationInvariance == Spec => []RotationIInv
<1>1. Init => RotationIInv
  <2> SUFFICES ASSUME Init PROVE RotationIInv
    OBVIOUS
  <2>1. TypeOK
    BY InitTypes
  <2>2. LastKeyActive /\ HeldInTime
    BY DEF Init, LastKeyActive, HeldInTime, Empty
  <2>3. RotationStages
    BY DEF Init, RotationStages
  <2>4. Rows = {Seed}
    BY DEF Init, Rows
  <2>5. RowsOfRotations
    BY <2>4, FS_Singleton DEF Init, RowsOfRotations
  <2>6. CacheNeedsLateRead /\ SwitchedAreRetired /\ OldKeyNeedsLateRead
    BY DEF Init, Empty, CacheNeedsLateRead, SwitchedAreRetired, OldKeyNeedsLateRead
  <2> QED
    BY <2>1, <2>2, <2>3, <2>5, <2>6 DEF RotationIInv
<1>2. RotationIInv /\ [Next]_vars => RotationIInv'
  <2>1. RotationIInv /\ [Next]_vars =>
          TypeOK' /\ LastKeyActive' /\ HeldInTime' /\ RotationStages' /\ RowsOfRotations'
    BY NextTypes, NextLast, NextHeld, NextStages, NextRows DEF RotationIInv
  <2> QED
    BY <2>1, NextCache, NextSwitched, NextOldKey DEF RotationIInv
<1> QED
  BY <1>1, <1>2, PTL DEF Spec

(* Rotations that do not overlap and end leave one key, and a process that  *)
(* has rotated a key away signs with it again only after a late read has    *)
(* put it back (jwt.ts:48, 123-134).                                        *)
THEOREM RotationsTakeEffect == Spec => []RotationTakesEffect
<1>1. RotationIInv => RotationTakesEffect
  BY OneKeyIsLeft DEF RotationIInv, RotationTakesEffect
<1> QED
  BY <1>1, RotationInvariance, PTL
=============================================================================
