------------------------------- MODULE WebLogs -------------------------------
(***************************************************************************)
(* The log analyzer (components/logs/log-analyzer.tsx): a log is pasted or *)
(* uploaded, analyzed at once or by a background task that is polled, for  *)
(* the user or for the organization of the workspace switcher.  The user   *)
(* submits, switches the workspace and submits again while answers are on  *)
(* their way; the role in an organization arrives late and changes.        *)
(***************************************************************************)
EXTENDS Naturals, Sequences, FiniteSets

CONSTANTS
  LogOrgs,         \* organizations of the switcher
  MaxSubmissions,  \* logs submitted
  MaxSwitches      \* changes of the workspace or of the role

VARIABLES
  selected,    \* organization selected in the switcher, or "none"
  canCreate,   \* the role known there has resource.create
  logForm,     \* [workspace, async]
  submissions, \* [kind, org, step, crossed] of each log, in order;
               \* crossed: how it stood at the last change of workspace
  latest,      \* the last call of each mutation: what its isPending is about
  taskId,      \* <<>> or the submission whose task is polled
  queuedOrg,   \* the organization shown beside it
  poll,        \* [step, seen] of the task's query
  result,      \* <<>> or the submission whose analysis is shown
  switches     \* how many of MaxSwitches have been made

logVars ==
  <<selected, canCreate, logForm, submissions, latest, taskId, queuedOrg, poll, result, switches>>

Kinds == {"sync", "async", "upload"}
Active == {"queued", "running"}
Ended == {"succeeded", "failed", "cancelled"}

NoPoll == [step |-> "idle", seen |-> "nothing"]

LogInit ==
  /\ selected \in LogOrgs \cup {"none"}
  /\ canCreate \in {may \in BOOLEAN : may => selected # "none"}
  /\ logForm = [workspace |-> "personal", async |-> FALSE]
  /\ submissions = <<>>
  /\ latest = [k \in Kinds |-> 0]
  /\ taskId = <<>> /\ queuedOrg = "none" /\ poll = NoPoll
  /\ result = <<>>
  /\ switches = 0

-----------------------------------------------------------------------------
(* Slips a change of this code could make, for the run to reject: the call *)
(* that queues a task is not pending, a change of workspace keeps the task.*)
PendingUnlessAsync ==
  \/ \E k \in {"sync", "upload"} : latest[k] # 0 /\ submissions[latest[k]].step = "sent"
  \/ poll.seen \in Active

(* isPending *)
Pending ==
  \/ \E k \in Kinds : latest[k] # 0 /\ submissions[latest[k]].step = "sent"
  \/ poll.seen \in Active

Forget == taskId' = <<>> /\ queuedOrg' = "none" /\ poll' = NoPoll /\ result' = <<>>

Crossed(s) ==
  [s EXCEPT !.crossed = IF s.step \in {"reading", "sent"} THEN "on its way" ELSE "settled"]

(* The switcher, or a role that arrives or changes, and the effect of      *)
(* either.                                                                 *)
ChangeWorkspace(org, may) ==
  /\ switches < MaxSwitches /\ switches' = switches + 1
  /\ <<org, may>> # <<selected, canCreate>> /\ (may => org # "none")
  /\ selected' = org /\ canCreate' = may
  /\ Forget
  /\ logForm' = IF may THEN logForm ELSE [logForm EXCEPT !.workspace = "personal"]
  /\ submissions' = [i \in DOMAIN submissions |-> Crossed(submissions[i])]
  /\ UNCHANGED latest

(* The controls of the form; a log of more than LOG_ASYNC_THRESHOLD ticks  *)
(* the box, too.                                                           *)
ChooseWorkspace(w) ==
  /\ taskId = <<>> /\ (w = "organization" => canCreate)
  /\ logForm.workspace # w
  /\ logForm' = [logForm EXCEPT !.workspace = w]
  /\ UNCHANGED <<selected, canCreate, submissions, latest, taskId, queuedOrg, poll, result, switches>>

TickAsync ==
  /\ logForm' = [logForm EXCEPT !.async = ~@]
  /\ UNCHANGED <<selected, canCreate, submissions, latest, taskId, queuedOrg, poll, result, switches>>

-----------------------------------------------------------------------------
Submit(kind, org, step) ==
  /\ ~Pending /\ Len(submissions) < MaxSubmissions
  /\ submissions' = Append(submissions, [kind |-> kind, org |-> org, step |-> step, crossed |-> "no"])

(* onPasteSubmit *)
Paste ==
  LET kind == IF logForm.async THEN "async" ELSE "sync"
      org == IF logForm.workspace = "organization" THEN selected ELSE "none"
  IN /\ Submit(kind, org, "sent")
     /\ latest' = [latest EXCEPT ![kind] = Len(submissions')]
     /\ Forget
     /\ UNCHANGED <<selected, canCreate, logForm, switches>>

(* onUploadSubmit, for the user always: validateLogFile refuses the file,  *)
(* or it is read, during which nothing is pending.                         *)
Upload ==
  /\ \E step \in {"reading", "invalid"} : Submit("upload", "none", step)
  /\ taskId' = <<>> /\ poll' = NoPoll /\ result' = <<>>
  /\ UNCHANGED <<selected, canCreate, logForm, latest, queuedOrg, switches>>

(* The file is read: it is sent unless it is binary, or too long. *)
FileRead(i) ==
  /\ submissions[i].step = "reading"
  /\ \/ /\ submissions' = [submissions EXCEPT ![i].step = "sent"]
        /\ latest' = [latest EXCEPT !.upload = i]
     \/ /\ submissions' = [submissions EXCEPT ![i].step = "invalid"]
        /\ UNCHANGED latest
  /\ UNCHANGED <<selected, canCreate, logForm, taskId, queuedOrg, poll, result, switches>>

(* The call answers: with an analysis, or with a task that is queued. *)
Answered(i) ==
  /\ submissions[i].step = "sent"
  /\ IF submissions[i].kind = "async"
     THEN /\ submissions' = [submissions EXCEPT ![i].step = "queued"]
          /\ taskId' = <<i>> /\ queuedOrg' = submissions[i].org
          /\ poll' = [step |-> "asked", seen |-> "nothing"]
          /\ UNCHANGED result
     ELSE /\ submissions' = [submissions EXCEPT ![i].step = "analyzed"]
          /\ result' = <<i>>
          /\ UNCHANGED <<taskId, queuedOrg, poll>>
  /\ UNCHANGED <<selected, canCreate, logForm, latest, switches>>

(* It is refused, or its answer never comes: a message. *)
Refused(i) ==
  /\ submissions[i].step = "sent"
  /\ submissions' = [submissions EXCEPT ![i].step = "refused"]
  /\ UNCHANGED <<selected, canCreate, logForm, latest, taskId, queuedOrg, poll, result, switches>>

-----------------------------------------------------------------------------
(* The worker: a task is taken, and ends. *)
TaskMoves(i) ==
  /\ submissions[i].step \in Active
  /\ \E step \in ({"running"} \cup Ended) \ {submissions[i].step} :
       /\ step \in {"succeeded", "failed"} => submissions[i].step = "running"
       /\ submissions' = [submissions EXCEPT ![i].step = step]
  /\ UNCHANGED <<selected, canCreate, logForm, latest, taskId, queuedOrg, poll, result, switches>>

(* useLogAnalysisTask answers, and the effect looks at the answer: a       *)
(* result that parses is shown, and an end is the end of the polling.      *)
PollAnswered ==
  /\ poll.step = "asked"
  /\ LET status == submissions[Head(taskId)].step
     IN IF status \in Active
        THEN poll' = [step |-> "idle", seen |-> status] /\ UNCHANGED <<taskId, queuedOrg, result>>
        ELSE /\ taskId' = <<>> /\ queuedOrg' = "none" /\ poll' = NoPoll
             /\ result' \in IF status = "succeeded" THEN {taskId, result} ELSE {result}
  /\ UNCHANGED <<selected, canCreate, logForm, submissions, latest, switches>>

PollFails ==
  /\ poll.step = "asked"
  /\ poll' = [poll EXCEPT !.step = "idle"]
  /\ UNCHANGED <<selected, canCreate, logForm, submissions, latest, taskId, queuedOrg, result, switches>>

(* taskPollInterval: after a while, if an answer said that it is active;   *)
(* otherwise when the window is focused again.                             *)
PollAgain ==
  /\ taskId # <<>> /\ poll.step = "idle"
  /\ poll' = [poll EXCEPT !.step = "asked"]
  /\ UNCHANGED <<selected, canCreate, logForm, submissions, latest, taskId, queuedOrg, result, switches>>

LogNext ==
  \/ Paste \/ Upload \/ TickAsync
  \/ \E org \in LogOrgs \cup {"none"}, may \in BOOLEAN : ChangeWorkspace(org, may)
  \/ \E w \in {"personal", "organization"} : ChooseWorkspace(w)
  \/ \E i \in DOMAIN submissions : FileRead(i) \/ Answered(i) \/ Refused(i) \/ TaskMoves(i)
  \/ PollAnswered \/ PollFails \/ PollAgain

-----------------------------------------------------------------------------
(* Properties                                                              *)

(* The type invariant.  The form never asks for an organization where the  *)
(* role cannot create, and the workspace shown beside a task is its own.   *)
LogsTypeOK ==
  /\ selected \in LogOrgs \cup {"none"} /\ (canCreate => selected # "none")
  /\ logForm.workspace = "organization" => canCreate
  /\ Len(submissions) <= MaxSubmissions /\ switches \in 0..MaxSwitches
  /\ \A i \in DOMAIN submissions :
       /\ submissions[i].kind \in Kinds /\ submissions[i].org \in LogOrgs \cup {"none"}
       /\ submissions[i].step \in
            {"reading", "invalid", "sent", "refused", "analyzed"} \cup Active \cup Ended
  /\ \A k \in Kinds : latest[k] # 0 => submissions[latest[k]].kind = k
  /\ poll.step \in {"idle", "asked"} /\ poll.seen \in Active \cup {"nothing"}
  /\ taskId = <<>> => poll = NoPoll
  /\ taskId # <<>> => /\ submissions[Head(taskId)].kind = "async"
                      /\ queuedOrg = submissions[Head(taskId)].org

(* log-analyzer.tsx "Clear in-flight async UI when the selected            *)
(* organization changes": the analysis that is shown, and the task that is *)
(* waited for, are those of the log that was submitted last, and not of a  *)
(* call that was over when the workspace changed.  Two things the code     *)
(* lets happen: an upload that is overtaken while its file is read, and a  *)
(* call that is on its way at the change, whose answer is shown after it.  *)
AnalysisIsCurrent ==
  \A i \in DOMAIN submissions :
    <<i>> \in {result, taskId} =>
      /\ submissions[i].kind = "upload" \/ i = Len(submissions)
      /\ submissions[i].crossed # "settled"
=============================================================================
