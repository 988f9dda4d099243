------------------------------ MODULE JwtKeys ------------------------------
(***************************************************************************)
(* Signing keys of the IAM service, src/iam-service/src/lib/jwt.ts.        *)
(* rotateKeys reads an active row of jwt_keys, creates a new active row,   *)
(* retires the one it read and drops the cached active key of its own      *)
(* process; fetchActiveKey caches what it read for five minutes.  Every    *)
(* await is a point where other rotations, other calls and other processes *)
(* go on.  The event jwt_key_rotated that ends a rotation has no consumer  *)
(* in the repository, so the other processes learn of it by their caches   *)
(* running out only.  No code deletes a row, so fetchKey finds the key of  *)
(* every token; validation is not part of this module.                     *)
(***************************************************************************)
EXTENDS Integers, FiniteSets

CONSTANTS
  Processes,   \* instances of the service
  Rotations,   \* calls of rotateKeys; a rotation also names the key it creates
  Calls,       \* calls of sign and issueJwt
  Seed,        \* the key the deployment starts with
  NoKey,
  Ttl,         \* lifetime of a cached active key, in ticks of the clock
  MaxFaults,   \* bound: errors and crashes
  MaxTime      \* bound: clock ticks

Keys == Rotations \cup {Seed}

ASSUME KeysAssumption ==
  /\ Seed \notin Rotations /\ NoKey \notin Keys
  /\ Ttl \in Nat \ {0} /\ MaxFaults \in Nat /\ MaxTime \in Nat

VARIABLES
  now,
  state,      \* table jwt_keys: "absent", "active" or "retired"
  created,    \* history: rows created so far
  serial,     \* history: order of creation, 0 for an absent key
  retiredAt,  \* history: when a key was retired
  cache,      \* per process, activeKey: a key and its expiry
  rot,        \* per rotation: where it stands, its process, the old key
  call,       \* per call: where it stands, its process, its key, when read
  switched,   \* history: per call, keys its process had rotated away before
  faults

table == <<state, created, serial, retiredAt>>
vars == <<now, table, cache, rot, call, switched, faults>>

Active == {k \in Keys : state[k] = "active"}

Empty == [key |-> NoKey, expires |-> 0]

Init ==
  /\ now = 0
  /\ state = [k \in Keys |-> IF k = Seed THEN "active" ELSE "absent"]
  /\ created = 1 /\ serial = [k \in Keys |-> IF k = Seed THEN 1 ELSE 0]
  /\ retiredAt = [k \in Keys |-> 0]
  /\ cache = [p \in Processes |-> Empty]
  /\ rot = [r \in Rotations |-> [pc |-> "idle", home |-> NoKey, old |-> NoKey]]
  /\ call = [c \in Calls |-> [pc |-> "idle", home |-> NoKey, key |-> NoKey, at |-> 0]]
  /\ switched = [c \in Calls |-> {}]
  /\ faults = 0

Fault == faults < MaxFaults /\ faults' = faults + 1

(* A query is answered within a tick of the clock.                         *)
Tick ==
  /\ now < MaxTime /\ \A c \in Calls : call[c].pc = "reading" => call[c].at = now
  /\ now' = now + 1
  /\ UNCHANGED <<table, cache, rot, call, switched, faults>>

-----------------------------------------------------------------------------
(* rotateKeys                                                              *)

(* findFirst with active: true, and no order: any active row.              *)
FindFirst == Active

RotateFinds(r, p) ==
  /\ rot[r].pc = "idle"
  /\ \E k \in IF FindFirst = {} THEN {NoKey} ELSE FindFirst :
       rot' = [rot EXCEPT ![r] = [pc |-> "create", home |-> p, old |-> k]]
  /\ UNCHANGED <<now, table, cache, call, switched, faults>>

NewState_Default == "retired"

NewState == "active"

(* A query took effect; its answer arrives or is lost, and with it the     *)
(* rotation.                                                               *)
Answer(r, s) ==
  \/ rot' = [rot EXCEPT ![r].pc = s] /\ UNCHANGED faults
  \/ rot' = [rot EXCEPT ![r].pc = "failed"] /\ Fault

RotateCreates(r) ==
  /\ rot[r].pc = "create"
  /\ state' = [state EXCEPT ![r] = NewState]
  /\ serial' = [serial EXCEPT ![r] = created + 1]
  /\ created' = created + 1
  /\ Answer(r, "retire")
  /\ UNCHANGED <<now, retiredAt, cache, call, switched>>

Retires_Inverted(r) == NoKey

\* if (old)
Retires(r) == rot[r].old

RotateRetires(r) ==
  /\ rot[r].pc = "retire"
  /\ LET k == Retires(r) IN
       IF k = NoKey THEN UNCHANGED <<state, retiredAt>>
       ELSE /\ state' = [state EXCEPT ![k] = "retired"]
            /\ retiredAt' = [retiredAt EXCEPT ![k] = IF state[k] = "retired" THEN @ ELSE now]
  /\ Answer(r, "forget")
  /\ UNCHANGED <<now, created, serial, cache, call, switched>>

(* activeKey = null, then the event; whether that is sent changes nothing  *)
(* the service keeps.                                                      *)
RotateForgets(r) ==
  /\ rot[r].pc = "forget"
  /\ cache' = [cache EXCEPT ![rot[r].home] = Empty]
  /\ rot' = [rot EXCEPT ![r].pc = "done"]
  /\ UNCHANGED <<now, table, call, switched, faults>>

(* A query is rejected without effect; the rotation ends where it stands.  *)
RotateFails(r) ==
  /\ rot[r].pc \in {"create", "retire"} /\ Fault
  /\ rot' = [rot EXCEPT ![r].pc = "failed"]
  /\ UNCHANGED <<now, table, cache, call, switched>>

-----------------------------------------------------------------------------
(* fetchActiveKey                                                          *)

Fresh_Forever(p) == cache[p].key # NoKey

Fresh(p) == cache[p].key # NoKey /\ now < cache[p].expires

Expiry_Milliseconds == now + 1000 * Ttl

Expiry == now + Ttl

RotatedAway(p) == {rot[r].old : r \in {q \in Rotations : rot[q].pc = "done" /\ rot[q].home = p}}

Begin(c, p, s, k) ==
  /\ call' = [call EXCEPT ![c] = [pc |-> s, home |-> p, key |-> k, at |-> now]]
  /\ switched' = [switched EXCEPT ![c] = RotatedAway(p)]

(* The cached key signs at once; otherwise the table is read.              *)
CallBegins(c, p) ==
  /\ call[c].pc = "idle"
  /\ IF Fresh(p) THEN Begin(c, p, "signed", cache[p].key)
     ELSE IF FindFirst = {} THEN Begin(c, p, "failed", NoKey)
     ELSE \E k \in FindFirst : Begin(c, p, "reading", k)
  /\ UNCHANGED <<now, table, cache, rot, faults>>

(* The row arrives (decrypted, perhaps by a call of KMS): cached whatever  *)
(* happened to the cache and the row since.                                *)
CallReads(c) ==
  /\ call[c].pc = "reading"
  /\ cache' = [cache EXCEPT ![call[c].home] = [key |-> call[c].key, expires |-> Expiry]]
  /\ call' = [call EXCEPT ![c] = [pc |-> "signed", home |-> @.home, key |-> @.key, at |-> now]]
  /\ UNCHANGED <<now, table, rot, switched, faults>>

(* The process dies and starts again with empty caches.                    *)
Crash(p) ==
  /\ Fault
  /\ cache' = [cache EXCEPT ![p] = Empty]
  /\ rot' = [r \in Rotations |->
       IF rot[r].home = p /\ rot[r].pc # "done" THEN [rot[r] EXCEPT !.pc = "failed"] ELSE rot[r]]
  /\ call' = [c \in Calls |->
       IF call[c].home = p /\ call[c].pc = "reading" THEN [call[c] EXCEPT !.pc = "failed"] ELSE call[c]]
  /\ UNCHANGED <<now, table, switched>>

-----------------------------------------------------------------------------
Rotate(r) ==
  \/ \E p \in Processes : RotateFinds(r, p)
  \/ RotateCreates(r) \/ RotateRetires(r) \/ RotateForgets(r) \/ RotateFails(r)

Next ==
  \/ Tick
  \/ \E r \in Rotations : Rotate(r)
  \/ \E c \in Calls : CallReads(c) \/ \E p \in Processes : CallBegins(c, p)
  \/ \E p \in Processes : Crash(p)

Spec == Init /\ [][Next]_vars

-----------------------------------------------------------------------------
Places == Processes \cup {NoKey}

(* Every variable has its type; a cached key expires within Ttl.           *)
TypeOK ==
  /\ now \in 0 .. MaxTime /\ faults \in 0 .. MaxFaults
  /\ state \in [Keys -> {"absent", "active", "retired"}]
  /\ created \in Nat /\ serial \in [Keys -> Nat] /\ retiredAt \in [Keys -> Nat]
  /\ cache \in [Processes -> [key : Keys \cup {NoKey}, expires : 0 .. (MaxTime + Ttl)]]
  /\ rot \in [Rotations -> [pc : {"idle", "create", "retire", "forget", "done", "failed"},
                            home : Places, old : Keys \cup {NoKey}]]
  /\ call \in [Calls -> [pc : {"idle", "reading", "signed", "failed"},
                         home : Places, key : Keys \cup {NoKey}, at : Nat]]
  /\ switched \in [Calls -> SUBSET (Keys \cup {NoKey})]

(* The last key created is active: a rotation retires only what it read    *)
(* before it created its own.                                              *)
LastKeyActive ==
  /\ \E k \in Keys : serial[k] = created /\ state[k] = "active"
  /\ \A k \in Keys : serial[k] <= created /\ (state[k] = "absent" <=> serial[k] = 0)
  /\ \A r \in Rotations :
       /\ rot[r].pc \in {"idle", "create"} => serial[r] = 0
       /\ rot[r].old # NoKey => serial[rot[r].old] > 0
       /\ rot[r].pc = "retire" /\ rot[r].old # NoKey => serial[rot[r].old] < serial[r]

(* How long a retired key is held, in a cache and by a call that read it.  *)
HeldInTime ==
  /\ \A p \in Processes :
       /\ cache[p].expires <= now + Ttl
       /\ cache[p].key # NoKey =>
            /\ serial[cache[p].key] > 0
            /\ state[cache[p].key] = "retired" =>
                 cache[p].expires <= retiredAt[cache[p].key] + Ttl + 1
  /\ \A c \in Calls : call[c].pc \in {"reading", "signed"} =>
       /\ call[c].key \in Keys /\ serial[call[c].key] > 0 /\ call[c].at <= now
       /\ call[c].pc = "reading" => call[c].home \in Processes /\ now <= call[c].at + 1
       /\ call[c].pc = "reading" /\ state[call[c].key] = "retired" =>
            call[c].at <= retiredAt[call[c].key]
       /\ call[c].pc = "signed" /\ state[call[c].key] = "retired" =>
            call[c].at <= retiredAt[call[c].key] + Ttl

(* There is always an active key to sign with, however rotations overlap,  *)
(* fail or die between the create and the update (lines 124-127).          *)
SomeKeyActive == Active # {}

(* When every rotation ran to its end and no two of them retired the same  *)
(* key, one key is active (lines 124-127).  Rotations that overlap, and    *)
(* one that ends between the create and the update, do leave two.          *)
OneKeyAfterRotations ==
  (/\ \A r \in Rotations : rot[r].pc \in {"idle", "done"}
   /\ \A r, s \in Rotations : rot[r].old = rot[s].old => r = s \/ rot[r].pc = "idle")
  => Cardinality(Active) = 1

(* A retired key signs no token later than one cache lifetime after it was *)
(* retired, in any process, a read in flight at the time included          *)
(* (lines 44-48).                                                          *)
RetiredKeyRunsOut ==
  \A c \in Calls :
    call[c].pc = "signed" /\ state[call[c].key] = "retired" =>
      call[c].at <= retiredAt[call[c].key] + Ttl

(* After a rotation has emptied the cache of its process (line 128), a new *)
(* call there signs with the old key only if another call's read was under *)
(* way at the time and has put it back (line 48).                          *)
OldKeyNeedsLateRead ==
  \A c \in Calls :
    call[c].pc = "signed" /\ call[c].key \in switched[c] =>
      \E d \in Calls \ {c} :
        /\ call[d].pc = "signed" /\ call[d].home = call[c].home
        /\ call[d].key = call[c].key /\ call[d].at >= retiredAt[call[c].key]

(* Both at once: rotations leave one key, and the old one is not used      *)
(* again but through a late read (lines 123-134).                          *)
RotationTakesEffect == OneKeyAfterRotations /\ OldKeyNeedsLateRead
=============================================================================
