---------------------------- MODULE SoarActions ----------------------------
(***************************************************************************)
(* src/soar-service/src/actions: the built-in handlers.  isolateHost and   *)
(* resetPassword work on a host over SSH, notify sends a message; each     *)
(* turns every error into the status "failed".  Several may run at once,   *)
(* on one host too.                                                        *)
(*                                                                         *)
(* The host, from the commands the code runs there: a rule drops packets   *)
(* as soon as it is appended.  Where an earlier rule of the host admits    *)
(* established connections the isolating session survives, and a command   *)
(* is answered; elsewhere the session goes dead under it.                  *)
(***************************************************************************)
EXTENDS Integers

CONSTANTS
  Actions,  \* calls of handlers
  Hosts, NoReset

ASSUME SoarActionsAssumption == NoReset \notin Actions

VARIABLES
  type,      \* per call, its step's type and, for notify, whether its channel is known
  host,      \* per call, its host
  keeps,     \* hosts whose rules admit established connections
  rules,     \* per host, the chains that drop: subset of {"INPUT", "OUTPUT"}
  password,  \* per host, the call whose random password is set, or NoReset
  sent,      \* notify calls whose message went out
  actionPc   \* per call, where it stands

soarActionsVars == <<type, host, keeps, rules, password, sent, actionPc>>

Types == {"isolate_host", "reset_password", "notify", "notify_unknown"}

SoarActionsInit ==
  /\ type \in [Actions -> Types] /\ host \in [Actions -> Hosts]
  /\ keeps \in SUBSET Hosts
  /\ rules = [h \in Hosts |-> {}] /\ password = [h \in Hosts |-> NoReset]
  /\ sent = {} /\ actionPc = [a \in Actions |-> "idle"]

MoveAction(a, p) == actionPc' = [actionPc EXCEPT ![a] = p]

(* A session to the host of a is alive.                                    *)
Alive(a) == rules[host[a]] = {} \/ host[a] \in keeps

-----------------------------------------------------------------------------
(* notify: an unknown channel throws inside the try.                       *)
Notify(a) ==
  /\ actionPc[a] = "idle"
  /\ \/ \E out, ok \in BOOLEAN :
          /\ type[a] = "notify" /\ (ok => out)
          /\ sent' = IF out THEN sent \cup {a} ELSE sent
          /\ MoveAction(a, IF ok THEN "success" ELSE "failed")
     \/ type[a] = "notify_unknown" /\ MoveAction(a, "failed") /\ UNCHANGED sent
  /\ UNCHANGED <<type, host, keeps, rules, password>>

(* ssh.connect: a new session needs a host that drops nothing.             *)
ConnectHost(a) ==
  /\ actionPc[a] = "idle" /\ type[a] \in {"isolate_host", "reset_password"}
  /\ \/ /\ rules[host[a]] = {}
        /\ MoveAction(a, IF type[a] = "isolate_host" THEN "INPUT" ELSE "chpasswd")
     \/ MoveAction(a, "failed")
  /\ UNCHANGED <<type, host, keeps, rules, password, sent>>

(* The first command that is answered with an error ends the action: the   *)
(* rule that is in place already stays.                                    *)
OnError(a) == "failed"

AfterRule(chain) == IF chain = "INPUT" THEN "OUTPUT" ELSE "success"

(* iptables -A <chain> -j DROP, run and answered.                          *)
AppendRule(a) ==
  /\ actionPc[a] \in {"INPUT", "OUTPUT"} /\ Alive(a)
  /\ rules' = [rules EXCEPT ![host[a]] = @ \cup {actionPc[a]}]
  /\ MoveAction(a, AfterRule(actionPc[a]))
  /\ UNCHANGED <<type, host, keeps, password, sent>>

Reset(a) == password' = [password EXCEPT ![host[a]] = a]

Chpasswd(a) ==
  /\ actionPc[a] = "chpasswd" /\ Alive(a)
  /\ Reset(a) /\ MoveAction(a, "success")
  /\ UNCHANGED <<type, host, keeps, rules, sent>>

(* The session breaks or is dead: the command may have been run.           *)
ExecFails(a) ==
  /\ \/ actionPc[a] \in {"INPUT", "OUTPUT"} /\ UNCHANGED <<rules, password>>
     \/ /\ actionPc[a] \in {"INPUT", "OUTPUT"} /\ Alive(a) /\ UNCHANGED password
        /\ rules' = [rules EXCEPT ![host[a]] = @ \cup {actionPc[a]}]
     \/ actionPc[a] = "chpasswd" /\ UNCHANGED <<rules, password>>
     \/ actionPc[a] = "chpasswd" /\ Alive(a) /\ Reset(a) /\ UNCHANGED rules
  /\ MoveAction(a, OnError(a))
  /\ UNCHANGED <<type, host, keeps, sent>>

ActionStep(a) == Notify(a) \/ ConnectHost(a) \/ AppendRule(a) \/ Chpasswd(a) \/ ExecFails(a)

SoarActionsNext == \E a \in Actions : ActionStep(a)

SoarActionsSpec == SoarActionsInit /\ [][SoarActionsNext]_soarActionsVars

-----------------------------------------------------------------------------
Of(t, h) == {a \in Actions : type[a] = t /\ host[a] = h}

(* Every variable has its type.                                            *)
SoarActionsTypeOK ==
  /\ type \in [Actions -> Types] /\ host \in [Actions -> Hosts]
  /\ keeps \in SUBSET Hosts
  /\ rules \in [Hosts -> SUBSET {"INPUT", "OUTPUT"}]
  /\ password \in [Hosts -> Actions \cup {NoReset}]
  /\ sent \in SUBSET Actions
  /\ actionPc \in [Actions -> {"idle", "INPUT", "OUTPUT", "chpasswd", "success", "failed"}]

(* An isolation that reports success left both rules on its host, and a    *)
(* reset that reports success set a password, its own unless another reset *)
(* of the host came after it (isolateHost.ts 27-33, resetPassword.ts       *)
(* 28-34).                                                                 *)
SuccessIsReal ==
  \A a \in Actions : actionPc[a] = "success" =>
    /\ type[a] = "isolate_host"   => rules[host[a]] = {"INPUT", "OUTPUT"}
    /\ type[a] = "reset_password" => password[host[a]] \in Of("reset_password", host[a])
    /\ type[a] = "notify"         => a \in sent
    /\ type[a] # "notify_unknown"

(* A host that drops in one direction only, which neither works nor is     *)
(* isolated, is never left behind unnoticed: while an isolation of it is   *)
(* not under way, one of them has reported a failure.                      *)
HalfIsolatedIsReported ==
  \A h \in Hosts : rules[h] \notin {{}, {"INPUT", "OUTPUT"}} =>
    \E a \in Of("isolate_host", h) : actionPc[a] \in {"OUTPUT", "failed"}
=============================================================================
