-------------------------------- MODULE Mfa --------------------------------
(***************************************************************************)
(* src/iam-service/src/routes/mfa.ts: POST /mfa/evaluate stores a          *)
(* challenge in Postgres, a key for it in Redis, and sends a one-time      *)
(* code; POST /mfa/verify trades the code for a token.  No transaction     *)
(* joins the steps, and calls interleave at every await.                   *)
(*                                                                         *)
(* One tick of the clock is a step of the one-time code (30 seconds): a    *)
(* code is accepted while it is at most Window steps old.                  *)
(***************************************************************************)
EXTENDS Integers

CONSTANTS
  Challenges,   \* calls of evaluate, each named by the challenge it creates
  Verifiers,    \* calls of verify
  Life,         \* ticks a challenge lives (300 seconds)
  Window,       \* steps a code is accepted after its own (window: 1)
  MaxTime,      \* bound of the clock
  MaxMfaFaults  \* bound: failing calls of Postgres, Redis, AWS and the senders

ASSUME MfaAssumption ==
  /\ Life \in Nat \ {0} /\ Window \in Nat
  /\ MaxTime \in Nat /\ MaxMfaFaults \in Nat

VARIABLES
  now,
  challengeRow,  \* mfa_challenges: per challenge, its expires_at, or -1
  verified,      \* mfa_challenges: challenges whose verified_at is set
  pending,       \* Redis: per challenge, when its key dies, or -1
  code,          \* per challenge, the step of the code made for it, or -1
  expiry,        \* per evaluate, its local expiresAt, or -1
  evalPc,        \* per evaluate, where it stands
  verifyPc,      \* per verify, where it stands
  target,        \* per verify, the challenge it names
  cached,        \* verify calls whose redis.get found the key
  late,          \* verify calls begun when their challenge was spent (history)
  mfaFaults

evaluate == <<evalPc, expiry, code>>
verify   == <<verifyPc, target, cached, late>>
mfaVars     == <<now, challengeRow, verified, pending, evaluate, verify, mfaFaults>>

MfaInit ==
  /\ now = 0
  /\ challengeRow = [c \in Challenges |-> -1] /\ pending = [c \in Challenges |-> -1]
  /\ code = [c \in Challenges |-> -1] /\ expiry = [c \in Challenges |-> -1]
  /\ verified = {} /\ cached = {} /\ late = {} /\ mfaFaults = 0
  /\ evalPc = [c \in Challenges |-> "idle"] /\ verifyPc = [v \in Verifiers |-> "idle"]
  /\ target \in [Verifiers -> Challenges]

MfaFault == mfaFaults < MaxMfaFaults /\ mfaFaults' = mfaFaults + 1

Moves(p, x, from, to) == p[x] = from /\ p' = [p EXCEPT ![x] = to]

-----------------------------------------------------------------------------
(* POST /mfa/evaluate                                                      *)

NeedsMfa(risk, known) == risk >= 60 \/ ~known

(* A malformed body gets 400; a known device at low risk needs no code.    *)
Evaluate(c) ==
  /\ \/ Moves(evalPc, c, "idle", "invalid") /\ UNCHANGED expiry
     \/ \E risk \in {59, 60}, known \in BOOLEAN :
          IF NeedsMfa(risk, known)
          THEN /\ Moves(evalPc, c, "idle", "create")
               /\ expiry' = [expiry EXCEPT ![c] = now + Life]
          ELSE Moves(evalPc, c, "idle", "not_required") /\ UNCHANGED expiry
  /\ UNCHANGED <<now, challengeRow, verified, pending, code, verify, mfaFaults>>

CreateChallenge(c) ==
  /\ Moves(evalPc, c, "create", "set")
  /\ challengeRow' = [challengeRow EXCEPT ![c] = expiry[c]]
  /\ UNCHANGED <<now, verified, pending, expiry, code, verify, mfaFaults>>

KeyDies == now + Life

SetPending(c) ==
  /\ Moves(evalPc, c, "set", "user")
  /\ pending' = [pending EXCEPT ![c] = KeyDies]
  /\ UNCHANGED <<now, challengeRow, verified, expiry, code, verify, mfaFaults>>

(* A user that does not exist raises a TypeError when its address is read. *)
FindUser(c) ==
  /\ \/ Moves(evalPc, c, "user", "send") /\ code' = [code EXCEPT ![c] = now]
     \/ Moves(evalPc, c, "user", "error") /\ UNCHANGED code
  /\ UNCHANGED <<now, challengeRow, verified, pending, expiry, verify, mfaFaults>>

(* sendSms or sendEmail; the status of the sender's answer is not read.    *)
SendCode(c) ==
  /\ Moves(evalPc, c, "send", "required")
  /\ UNCHANGED <<now, challengeRow, verified, pending, expiry, code, verify, mfaFaults>>

AfterSetError == "error"

(* A call rejects, perhaps after it took effect: 500.                      *)
EvaluateFails(c) ==
  /\ \/ /\ Moves(evalPc, c, "create", "error")
        /\ challengeRow' \in {challengeRow, [challengeRow EXCEPT ![c] = expiry[c]]}
        /\ UNCHANGED pending
     \/ /\ Moves(evalPc, c, "set", AfterSetError)
        /\ pending' \in {pending, [pending EXCEPT ![c] = KeyDies]} /\ UNCHANGED challengeRow
     \/ /\ \E p \in {"idle", "user", "send"} : Moves(evalPc, c, p, "error")
        /\ UNCHANGED <<challengeRow, pending>>
  /\ MfaFault
  /\ UNCHANGED <<now, verified, expiry, code, verify>>

-----------------------------------------------------------------------------
(* POST /mfa/verify                                                        *)

Spent(c) == c \in verified \/ (challengeRow[c] >= 0 /\ challengeRow[c] < now)
                           \/ (code[c] >= 0 /\ now > code[c] + Window)

Verify(v) ==
  /\ Moves(verifyPc, v, "idle", "get")
  /\ late' = IF Spent(target[v]) THEN late \cup {v} ELSE late
  /\ UNCHANGED <<now, challengeRow, verified, pending, evaluate, target, cached, mfaFaults>>

GetPending(v) ==
  /\ Moves(verifyPc, v, "get", "find")
  /\ cached' = IF pending[target[v]] > now THEN cached \cup {v} ELSE cached
  /\ UNCHANGED <<now, challengeRow, verified, pending, evaluate, target, late, mfaFaults>>

Open(v) ==
  /\ v \in cached
  /\ challengeRow[target[v]] >= now
  /\ target[v] \notin verified

FindChallenge_SpendsFirst(v) ==
  /\ \E valid \in BOOLEAN :
       Moves(verifyPc, v, "find", IF Open(v) /\ valid THEN "update" ELSE "refused")
  /\ verified' = IF Open(v) THEN verified \cup {target[v]} ELSE verified
  /\ UNCHANGED <<now, challengeRow, pending, evaluate, target, cached, late, mfaFaults>>

(* The caller has the code, or a wrong one.                                *)
FindChallenge(v) ==
  /\ \E right \in BOOLEAN :
       LET valid == right /\ code[target[v]] >= 0 /\ now <= code[target[v]] + Window
       IN  Moves(verifyPc, v, "find", IF Open(v) /\ valid THEN "update" ELSE "refused")
  /\ UNCHANGED <<now, challengeRow, verified, pending, evaluate, target, cached, late,
                 mfaFaults>>

Update(v) ==
  /\ Moves(verifyPc, v, "update", "del")
  /\ verified' = verified \cup {target[v]}
  /\ UNCHANGED <<now, challengeRow, pending, evaluate, target, cached, late, mfaFaults>>

DelPending(v) ==
  /\ Moves(verifyPc, v, "del", "sign")
  /\ pending' = [pending EXCEPT ![target[v]] = -1]
  /\ UNCHANGED <<now, challengeRow, verified, evaluate, target, cached, late, mfaFaults>>

(* The roles are read and the token is signed.                             *)
Issue(v) ==
  /\ Moves(verifyPc, v, "sign", "token")
  /\ UNCHANGED <<now, challengeRow, verified, pending, evaluate, target, cached, late,
                 mfaFaults>>

(* A call rejects, perhaps after it took effect: 500.                      *)
VerifyFails(v) ==
  /\ \/ /\ \E p \in {"get", "find", "sign"} : Moves(verifyPc, v, p, "error")
        /\ UNCHANGED <<verified, pending>>
     \/ /\ Moves(verifyPc, v, "update", "error")
        /\ verified' \in {verified, verified \cup {target[v]}} /\ UNCHANGED pending
     \/ /\ Moves(verifyPc, v, "del", "error")
        /\ pending' \in {pending, [pending EXCEPT ![target[v]] = -1]} /\ UNCHANGED verified
  /\ MfaFault
  /\ UNCHANGED <<now, challengeRow, evaluate, target, cached, late>>

(* A verify with a malformed body gets 400.                                *)
VerifyInvalid(v) ==
  /\ Moves(verifyPc, v, "idle", "invalid")
  /\ UNCHANGED <<now, challengeRow, verified, pending, evaluate, target, cached, late,
                 mfaFaults>>

MfaTick ==
  /\ now < MaxTime /\ now' = now + 1
  /\ UNCHANGED <<challengeRow, verified, pending, evaluate, verify, mfaFaults>>

-----------------------------------------------------------------------------
EvaluateStep(c) ==
  CreateChallenge(c) \/ SetPending(c) \/ FindUser(c) \/ SendCode(c) \/ EvaluateFails(c)

VerifyStep(v) ==
  GetPending(v) \/ FindChallenge(v) \/ Update(v) \/ DelPending(v) \/ Issue(v) \/ VerifyFails(v)

MfaNext ==
  \/ MfaTick
  \/ \E c \in Challenges : Evaluate(c) \/ EvaluateStep(c)
  \/ \E v \in Verifiers : Verify(v) \/ VerifyInvalid(v) \/ VerifyStep(v)

MfaSpec == MfaInit /\ [][MfaNext]_mfaVars

(* Node resumes the calls whose await is over.                             *)
MfaProgress ==
  (\E c \in Challenges : EvaluateStep(c)) \/ \E v \in Verifiers : VerifyStep(v)

-----------------------------------------------------------------------------
EvalAnswers   == {"invalid", "not_required", "required", "error"}
VerifyAnswers == {"invalid", "refused", "token", "error"}
Dates         == -1 .. MaxTime + Life

(* Every variable has its type.                                            *)
MfaTypeOK ==
  /\ now \in 0 .. MaxTime
  /\ challengeRow \in [Challenges -> Dates] /\ pending \in [Challenges -> Dates]
  /\ code \in [Challenges -> -1 .. MaxTime] /\ expiry \in [Challenges -> Dates]
  /\ verified \in SUBSET Challenges
  /\ evalPc \in [Challenges -> EvalAnswers \cup {"idle", "create", "set", "user", "send"}]
  /\ verifyPc \in [Verifiers -> VerifyAnswers \cup
                                {"idle", "get", "find", "update", "del", "sign"}]
  /\ target \in [Verifiers -> Challenges]
  /\ cached \in SUBSET Verifiers
  /\ late \in SUBSET Verifiers /\ mfaFaults \in 0 .. MaxMfaFaults

(* A verification begun after another one has spent the challenge, after   *)
(* it expired, or after its code did, issues no token, whichever of the    *)
(* two stores still knows the challenge (lines 124-138).                   *)
LateVerificationRefused == \A v \in late : verifyPc[v] # "token"

(* Whoever is told that a code is required has a challenge that can be     *)
(* verified: its row was stored, and its Redis key is there until it is    *)
(* verified or dies (lines 93-106).                                        *)
RequiredIsVerifiable ==
  \A c \in Challenges : evalPc[c] = "required" =>
    /\ challengeRow[c] = expiry[c] /\ code[c] >= 0
    /\ c \notin verified => pending[c] >= challengeRow[c]

(* A challenge is spent without a token only by a failure: two racing      *)
(* verifications never turn each other away after the check (lines         *)
(* 126-145).                                                               *)
SpentMeansIssued ==
  \A c \in verified :
    \/ mfaFaults > 0
    \/ \E v \in Verifiers : target[v] = c /\ verifyPc[v] \in {"del", "sign", "token"}

(* Every call is answered.                                                 *)
EveryCallAnswered ==
  /\ \A c \in Challenges : evalPc[c] # "idle" ~> evalPc[c] \in EvalAnswers
  /\ \A v \in Verifiers : verifyPc[v] # "idle" ~> verifyPc[v] \in VerifyAnswers

(* Of a challenge: it can be met when it is required, is not met late, and *)
(* is spent only for a token (lines 80-146).                               *)
MfaInv == MfaTypeOK /\ LateVerificationRefused /\ RequiredIsVerifiable /\ SpentMeansIssued
=============================================================================
