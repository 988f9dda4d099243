----------------------------- MODULE IamConsole -----------------------------
(***************************************************************************)
(* src/ui-dashboard/pages/IAMManager.tsx: the page lists sessions and lets *)
(* an admin create a role in a dialog.  Nothing sets editingRule, and      *)
(* "New Role" is the only way to a dialog, so that no rule and no role     *)
(* that exists is ever edited there.  React and react-query are external:  *)
(* a dialog that is closed loses its state, while a mutation that it began *)
(* goes on and calls its onSuccess; "isPending" does not exist in the      *)
(* versions whose useQuery takes a key and a function, so the button stays *)
(* enabled.                                                                *)
(***************************************************************************)
EXTENDS Naturals

CONSTANTS
  Saves,      \* submissions of the form
  MaxDialogs  \* bound: how often a dialog is opened

ASSUME DialogAssumption == MaxDialogs \in Nat

VARIABLES
  pageState,        \* "up" or "dead": an error while rendering ends the page
  sessions,         \* the sessions query: "loading", "array", "object" or "error"
  opened,           \* dialogs opened so far
  dialog,           \* the one that is shown, or 0
  name,             \* what stands in it
  savePc,           \* per save, where it stands
  from, savedName,  \* per save, its dialog and what it posted
  roles,            \* saves whose role is stored
  dismissed         \* dialogs that the user closed (history)

form == <<opened, dialog, name, dismissed>>
save == <<savePc, from, savedName, roles>>
iamConsoleVars == <<pageState, sessions, form, save>>

NoName == ""
Names == {NoName, "ops"}

IamConsoleInit ==
  /\ pageState = "up" /\ sessions = "loading"
  /\ opened = 0 /\ dialog = 0 /\ name = NoName /\ dismissed = {}
  /\ savePc = [s \in Saves |-> "idle"] /\ from = [s \in Saves |-> 0]
  /\ savedName = [s \in Saves |-> NoName] /\ roles = {}

-----------------------------------------------------------------------------
(* useQuery: whatever JSON comes is the list, and SessionTable maps over   *)
(* it.  The document of an error is an object too.                         *)
SessionsArrive ==
  /\ pageState = "up" /\ sessions' \in {"array", "object", "error"}
  /\ pageState' = IF sessions' = "object" THEN "dead" ELSE "up"
  /\ IF pageState' = "dead" THEN dialog' = 0 /\ name' = NoName ELSE UNCHANGED <<dialog, name>>
  /\ UNCHANGED <<opened, dismissed, save>>

(* A dialog covers the page, and starts from an empty name.                *)
NewRole ==
  /\ pageState = "up" /\ dialog = 0 /\ opened < MaxDialogs
  /\ opened' = opened + 1 /\ dialog' = opened' /\ name' = NoName
  /\ UNCHANGED <<pageState, sessions, dismissed, save>>

Dismiss ==
  /\ dialog # 0
  /\ dialog' = 0 /\ dismissed' = dismissed \cup {dialog}
  /\ UNCHANGED <<pageState, sessions, opened, name, save>>

TypeName(n) ==
  /\ dialog # 0 /\ name # n /\ name' = n
  /\ UNCHANGED <<pageState, sessions, opened, dialog, dismissed, save>>

(* The form stays as it is until an answer comes.                          *)
AfterSubmit == dialog

SubmitForm(s) ==
  /\ dialog # 0 /\ savePc[s] = "idle"
  /\ savePc' = [savePc EXCEPT ![s] = "posted"]
  /\ from' = [from EXCEPT ![s] = dialog] /\ savedName' = [savedName EXCEPT ![s] = name]
  /\ dialog' = AfterSubmit
  /\ UNCHANGED <<pageState, sessions, opened, name, dismissed, roles>>

(* The service stores the role or refuses it, a role without a name always *)
(* (routes/roles.ts), and its answer comes or is lost.                     *)
ServeSave(s) ==
  /\ savePc[s] = "posted"
  /\ \/ roles' = roles
     \/ savedName[s] # NoName /\ roles' = roles \cup {s}
  /\ \E p \in {"answered", "lost"} : savePc' = [savePc EXCEPT ![s] = p]
  /\ UNCHANGED <<pageState, sessions, form, from, savedName>>

(* setEditingRole(undefined)                                               *)
Closes(s) == 0

(* onSuccess: fetch resolves whatever the status is.                       *)
SaveSucceeds(s) ==
  /\ savePc[s] = "answered" /\ savePc' = [savePc EXCEPT ![s] = "done"]
  /\ dialog' = Closes(s)
  /\ UNCHANGED <<pageState, sessions, opened, name, dismissed, from, savedName, roles>>

(* A rejected fetch: nothing is shown, the form stays.                     *)
SaveFails(s) ==
  /\ savePc[s] = "lost" /\ savePc' = [savePc EXCEPT ![s] = "failed"]
  /\ UNCHANGED <<pageState, sessions, form, from, savedName, roles>>

-----------------------------------------------------------------------------
IamConsoleNext ==
  \/ SessionsArrive \/ NewRole \/ Dismiss \/ \E n \in Names : TypeName(n)
  \/ \E s \in Saves : SubmitForm(s) \/ ServeSave(s) \/ SaveSucceeds(s) \/ SaveFails(s)

IamConsoleSpec == IamConsoleInit /\ [][IamConsoleNext]_iamConsoleVars

-----------------------------------------------------------------------------
(* Every variable has its type.                                            *)
IamConsoleTypeOK ==
  /\ pageState \in {"up", "dead"} /\ sessions \in {"loading", "array", "object", "error"}
  /\ opened \in 0 .. MaxDialogs /\ dialog \in {0, opened} /\ name \in Names
  /\ dismissed \subseteq 1 .. opened
  /\ savePc \in [Saves -> {"idle", "posted", "answered", "lost", "done", "failed"}]
  /\ from \in [Saves -> 0 .. opened] /\ savedName \in [Saves -> Names]
  /\ roles \subseteq {s \in Saves : savedName[s] # NoName}

(* A dialog that went away and was not dismissed had a save of its own     *)
(* answered, stored or refused alike since line 90 ignores the status; or  *)
(* the answer to an earlier dialog's save closed it, and that dialog was   *)
(* dismissed while it was saving, or submitted twice (lines 86-100,        *)
(* 109-134, 270-272).                                                      *)
ClosedByAnswer ==
  pageState = "up" =>
    \A d \in 1 .. opened : d # dialog /\ d \notin dismissed =>
      \E s \in Saves :
        /\ savePc[s] = "done" /\ from[s] <= d
        /\ \/ from[s] = d \/ from[s] \in dismissed
           \/ \E t \in Saves \ {s} : from[t] = from[s]

(* Nor does a form stay open once a save of its own was answered, whichever*)
(* of its saves: who still sees it has heard nothing, though a role of it  *)
(* may be stored, once for every time it was submitted.                    *)
OpenIsUnanswered ==
  dialog # 0 => \A s \in Saves : from[s] = dialog => savePc[s] # "done"
=============================================================================
