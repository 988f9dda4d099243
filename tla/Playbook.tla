------------------------------ MODULE Playbook ------------------------------
(***************************************************************************)
(* src/soar-service: the run-playbook command (index.ts) loads a playbook  *)
(* (playbook/mapper.ts), runs its steps one after another, whatever became *)
(* of the earlier ones (engine/index.ts), with the handlers of             *)
(* engine/steps, and sums their results up.                                *)
(*                                                                         *)
(* A handler reports what it could observe.  What happened outside is kept *)
(* apart: a command, a reset or a message may have had its effect although *)
(* the handler reports a failure, and a script may still be running after  *)
(* its connection broke.                                                   *)
(*                                                                         *)
(* The command registers no handler; tests/unit/engine.test.ts does, as    *)
(* does whoever imports the engine: any set of them may be there.          *)
(***************************************************************************)
EXTENDS Integers, FiniteSets, Sequences

CONSTANTS
  StepTypes,  \* StepType: isolate_host, reset_password, notify
  Documents,  \* YAML sources: records [parses, fits, strict, steps]
  Channels    \* channels notify knows: slack, sns

ASSUME PlaybookAssumption ==
  /\ StepTypes \subseteq {"isolate_host", "reset_password", "notify"}
  /\ \A d \in Documents : d.steps \in Seq({d.steps[i] : i \in DOMAIN d.steps})

VARIABLES
  doc,       \* the document given to the command
  registry,  \* engine/registry.ts: step types with a handler
  runPc,     \* where the command stands
  results,   \* stepResults: the status of each step run so far
  remote,    \* steps whose script runs on its host
  done,      \* steps whose effect took place outside
  told       \* notify steps whose message was sent

playbookVars == <<doc, registry, runPc, results, remote, done, told>>

Steps       == doc.steps
Current     == Len(results) + 1
CurrentStep == Steps[Current]

PlaybookInit ==
  /\ doc \in Documents /\ registry \in SUBSET StepTypes
  /\ runPc = "load" /\ results = <<>> /\ remote = {} /\ done = {} /\ told = {}

-----------------------------------------------------------------------------
(* loadPlaybook                                                            *)

(* Where the document is refused: the YAML does not parse, the JSON schema *)
(* or the stricter zod schema does not fit, or two steps share an id.  Any *)
(* refusal ends the command with status 1; unknown fields do not matter.   *)
Accepted ==
  /\ doc.parses /\ doc.fits /\ doc.strict
  /\ \A i, j \in 1 .. Len(Steps) : Steps[i].id = Steps[j].id => i = j

LoadPlaybook ==
  /\ runPc = "load"
  /\ runPc' = IF Accepted THEN "next" ELSE "exit 1"
  /\ UNCHANGED <<doc, registry, results, remote, done, told>>

-----------------------------------------------------------------------------
(* runPlaybook                                                             *)

Record(s) == results' = Append(results, s) /\ runPc' = "next"

NoHandler == Record("failed")

(* The handler is looked up; a type without one raises, which is caught.   *)
StartStep ==
  /\ runPc = "next" /\ Current <= Len(Steps)
  /\ IF CurrentStep.type \in registry
     THEN runPc' = CurrentStep.type /\ UNCHANGED results
     ELSE NoHandler
  /\ UNCHANGED <<doc, registry, remote, done, told>>

(* isolateHost: 'ready', then exec starts the script on the host.          *)
Ready ==
  /\ runPc = "isolate_host"
  /\ runPc' = "exec" /\ remote' = remote \cup {Current}
  /\ UNCHANGED <<doc, registry, results, done, told>>

(* The host cannot be reached, or exec answers with an error.              *)
Unreachable ==
  /\ runPc = "isolate_host" /\ Record("failed")
  /\ UNCHANGED <<doc, registry, remote, done, told>>

(* The connection closes without an 'error': nothing settles the promise.  *)
Silence ==
  /\ runPc \in {"isolate_host", "exec"} /\ runPc' = "silent"
  /\ UNCHANGED <<doc, registry, results, remote, done, told>>

OnClose(code) == IF code = 0 THEN "success" ELSE "failed"

(* A promise settles once: a late 'close' finds it settled.                *)
Settles(i) == runPc = "exec" /\ i = Current

(* The script ends on its host; the stream's 'close' carries its status.   *)
ScriptEnds(i, code) ==
  /\ i \in remote /\ remote' = remote \ {i}
  /\ done' = IF code = 0 THEN done \cup {i} ELSE done
  /\ IF Settles(i) THEN Record(OnClose(code)) ELSE UNCHANGED <<results, runPc>>
  /\ UNCHANGED <<doc, registry, told>>

OnBreak_Assumes == "success"

OnBreak == "failed"

(* 'error' while the script runs: it goes on without its connection.       *)
ConnectionBreaks ==
  /\ runPc = "exec" /\ Record(OnBreak)
  /\ UNCHANGED <<doc, registry, remote, done, told>>

(* resetPassword: the request fails, or the answer does after the reset.   *)
ResetPassword ==
  /\ runPc = "reset_password"
  /\ \E reset, ok \in BOOLEAN :
       /\ ok => reset
       /\ done' = IF reset THEN done \cup {Current} ELSE done
       /\ Record(IF ok THEN "success" ELSE "failed")
  /\ UNCHANGED <<doc, registry, remote, told>>

(* notify: a channel it does not know is passed over, and reported as      *)
(* success.                                                                *)
NotifyStep ==
  /\ runPc = "notify"
  /\ \/ \E sent, ok \in BOOLEAN :
          /\ CurrentStep.channel \in Channels /\ (ok => sent)
          /\ told' = IF sent THEN told \cup {Current} ELSE told
          /\ Record(IF ok THEN "success" ELSE "failed")
     \/ CurrentStep.channel \notin Channels /\ Record("success") /\ UNCHANGED told
  /\ UNCHANGED <<doc, registry, remote, done>>

Succeeded == {i \in 1 .. Len(results) : results[i] = "success"}

Overall ==
  CASE Cardinality(Succeeded) = Len(results) -> "success"
    [] Succeeded = {} /\ results # <<>>      -> "failed"
    [] OTHER                                 -> "partial"

(* The command logs the overall status and exits with 0 in any case.       *)
Finish ==
  /\ runPc = "next" /\ Current > Len(Steps)
  /\ runPc' = Overall
  /\ UNCHANGED <<doc, registry, results, remote, done, told>>

-----------------------------------------------------------------------------
Handler == Ready \/ Unreachable \/ ConnectionBreaks \/ ResetPassword \/ NotifyStep

Remote == \E i \in remote, code \in {0, 1} : ScriptEnds(i, code)

PlaybookNext == LoadPlaybook \/ StartStep \/ Handler \/ Silence \/ Remote \/ Finish

PlaybookSpec == PlaybookInit /\ [][PlaybookNext]_playbookVars

(* Node goes on when a handler settles, and a connection is eventually     *)
(* made or refused; no script is assumed to end.                           *)
RunProgress ==
  LoadPlaybook \/ StartStep \/ Finish \/ Ready \/ Unreachable \/ ResetPassword \/ NotifyStep

-----------------------------------------------------------------------------
RunEnded == {"exit 1", "success", "partial", "failed"}

(* Every variable has its type; each result belongs to a step.             *)
PlaybookTypeOK ==
  /\ doc \in Documents /\ registry \in SUBSET StepTypes
  /\ runPc \in RunEnded \cup StepTypes \cup {"load", "next", "exec", "silent"}
  /\ results \in Seq({"success", "failed"}) /\ Len(results) <= Len(Steps)
  /\ remote \cup done \cup told \subseteq 1 .. Len(Steps)

(* Who reads "success" over a run may rely on every host being isolated,   *)
(* every password being reset and every message to a known channel being   *)
(* sent, whatever broke on the way (engine/index.ts 43-49, engine/steps).  *)
SuccessMeansDone ==
  runPc = "success" => \A i \in 1 .. Len(Steps) :
    \/ Steps[i].type = "notify" /\ (i \in told \/ Steps[i].channel \notin Channels)
    \/ i \in done

(* "failed" says that no step reported success, and every step was tried:  *)
(* an effect that took place all the same belongs to a step that reported  *)
(* a failure (engine/index.ts 15-41).                                      *)
FailedMeansTried ==
  runPc = "failed" => /\ Len(results) = Len(Steps)
                      /\ \A i \in done \cup told : results[i] = "failed"

(* One step of a playbook is never the effect of another: results are told *)
(* apart by the step's id (mapper.ts 107-113).                             *)
ResultsHaveTheirStep ==
  \A i, j \in 1 .. Len(results) : Steps[i].id = Steps[j].id => i = j

(* A run ends once its playbook is loaded, unless it waits for a host: for *)
(* a script that does not end, or on a connection that closed without an   *)
(* error.                                                                  *)
RunEnds == runPc # "load" ~> runPc \in RunEnded \cup {"exec", "silent"}
=============================================================================
