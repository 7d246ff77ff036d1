--------------------------- MODULE BackgroundTasks ---------------------------
(***************************************************************************)
(* Background log analyses: the API transactions that enqueue and cancel a *)
(* task (services/log_analyzer.py, services/task_service.py), the Celery   *)
(* message that carries it, and the worker that runs it (workers/tasks.py).*)
(*                                                                         *)
(* Every handler works in one database transaction (core/database.py       *)
(* get_db) on ORM copies of the rows.  `status' and `analysis' are the     *)
(* COMMITTED columns; what a handler has read or flushed but not committed *)
(* is in its own record.  A row that a session holds is not reloaded by a  *)
(* second SELECT (no populate_existing), so `seen' stays what it was when  *)
(* the row was first loaded, and every UPDATE is a blind write by id.      *)
(*                                                                         *)
(* Task ids are numbered in the order of their created_at.  One user and   *)
(* one task_type are modelled: the idempotency lookup filters on both.     *)
(***************************************************************************)
EXTENDS Naturals, FiniteSets

CONSTANTS
  MaxTasks,     \* bound on the tasks ever created
  Requests,     \* API requests that may be in flight together
  Workers,      \* Celery worker slots
  Keys,         \* Idempotency-Key header values
  NoKey,        \* no Idempotency-Key header
  MaxRetries,   \* settings.celery_max_retries
  Faulty        \* may transactions abort and workers die?

ASSUME BoundsAssumption == MaxTasks \in Nat /\ MaxRetries \in Nat
ASSUME KeyAssumption    == NoKey \notin Keys
ASSUME FaultyAssumption == Faulty \in BOOLEAN

VARIABLES
  status,       \* background_tasks.status, "absent" before the INSERT commits
  cancelledAt,  \* the tasks whose cancelled_at is set
  key,          \* background_tasks.idempotency_key
  created,      \* "old" when created_at is past the retention cutoff
  completed,    \* "old" when completed_at is past the retention cutoff
  analysis,     \* analyses.status of the analysis with this task_id
  queue,        \* the tasks with a message on the broker
  revoked,      \* the tasks whose revoke reached the workers
  retries,      \* Celery's retry counter of the task's message
  nextTask,     \* the next task id
  req,          \* the API requests: where they are and what they have read
  wrk           \* the workers: where they are and what they have read

rows == <<status, cancelledAt, key, created, completed, analysis>>
broker == <<queue, revoked, retries>>
vars == <<rows, broker, nextTask, req, wrk>>

Tasks == 1..MaxTasks

(* models/background_task.py TaskStatus, TERMINAL_STATUSES *)
TaskStatus == {"queued", "running", "succeeded", "failed", "cancelled"}
TERMINAL_STATUSES == {"succeeded", "failed", "cancelled"}

Idle == [pc |-> "idle"]

(* A request is creating a task, has published its message, or is          *)
(* cancelling one; a worker has taken a message, missed the analysis and   *)
(* is failing the task, or has loaded the rows and generates the analysis. *)
EnqueueState == [pc : {"creating", "published"}, task : Tasks, key : Keys \cup {NoKey}]
CancelState == [pc : {"cancelling", "flushed"}, task : Tasks]
RequestState == {Idle} \cup EnqueueState \cup CancelState

ReceivedState == [pc : {"received", "orphan"}, task : Tasks]
LoadedState ==
  [pc : {"failing", "loaded", "generating"}, task : Tasks, seen : TaskStatus]
WorkerState == {Idle} \cup ReceivedState \cup LoadedState

TypeOK ==
  /\ status \in [Tasks -> TaskStatus \cup {"absent", "deleted"}]
  /\ cancelledAt \subseteq Tasks
  /\ key \in [Tasks -> Keys \cup {NoKey}]
  /\ created \in [Tasks -> {"fresh", "old"}]
  /\ completed \in [Tasks -> {"fresh", "old"}]
  /\ analysis \in [Tasks -> {"absent", "running", "completed", "failed"}]
  /\ queue \subseteq Tasks
  /\ revoked \subseteq Tasks
  /\ retries \in [Tasks -> 0..MaxRetries]
  /\ nextTask \in 1..(MaxTasks + 1)
  /\ req \in [Requests -> RequestState]
  /\ wrk \in [Workers -> WorkerState]

Init ==
  /\ status = [t \in Tasks |-> "absent"]
  /\ cancelledAt = {}
  /\ key = [t \in Tasks |-> NoKey]
  /\ created = [t \in Tasks |-> "fresh"]
  /\ completed = [t \in Tasks |-> "fresh"]
  /\ analysis = [t \in Tasks |-> "absent"]
  /\ queue = {}
  /\ revoked = {}
  /\ retries = [t \in Tasks |-> 0]
  /\ nextTask = 1
  /\ req = [r \in Requests |-> Idle]
  /\ wrk = [w \in Workers |-> Idle]

-----------------------------------------------------------------------------
(* Helpers                                                                 *)

Committed(t) == status[t] \in TaskStatus

(* r or w is busy with task t *)
Creating(r, t)   == req[r].pc \in {"creating", "published"} /\ req[r].task = t
Cancelling(r, t) == req[r].pc \in {"cancelling", "flushed"} /\ req[r].task = t
Running(w, t)    == wrk[w].pc # "idle" /\ wrk[w].task = t

(* PostgreSQL's row lock: taken by the flushed UPDATE of a cancel, held    *)
(* until its transaction ends.  The worker's UPDATEs commit at once.       *)
Locked(t) == \E r \in Requests : req[r].pc = "flushed" /\ req[r].task = t

(* TaskRepository.get_by_idempotency_key and the retention test of         *)
(* TaskService.get_existing_idempotent_task: the latest committed task     *)
(* with this key, unless it is terminal and past retention.                *)
Latest(k) ==
  {t \in Tasks : /\ Committed(t) /\ key[t] = k
                 /\ \A u \in Tasks : Committed(u) /\ key[u] = k => u <= t}
ExistingIdempotentTask(k) ==
  IF k = NoKey THEN {}
  ELSE {t \in Latest(k) : ~(status[t] \in TERMINAL_STATUSES /\ completed[t] = "old")}

(* Slips a change of this code could make, for the runs to reject: no      *)
(* guard on the verdict, acks_late without idempotent tasks, a lost retry. *)
WritesAnyVerdict(seen) == TRUE
AcksLate(t) == queue
RetryLost(t) == queue

(* The guards of mark_running (TERMINAL_STATUSES; a task loaded as running *)
(* is assigned what it has, so no UPDATE is sent) and of mark_succeeded    *)
(* and mark_failed (CANCELLED only), all on the loaded status.             *)
MarksRunning(seen) == seen = "queued"
WritesVerdict(seen) == seen # "cancelled"

(* TaskRepository.delete_expired_before *)
Expired(t) == created[t] = "old" /\ status[t] \in {"succeeded", "cancelled"}

(* Celery: a message is acknowledged before its task runs (acks_late is    *)
(* not set); autoretry publishes it again up to max_retries times.         *)
Acknowledged(t) == queue \ {t}
Republished(t) == queue \cup {t}
RetryAllowed(t) == retries[t] < MaxRetries

-----------------------------------------------------------------------------
(* API: enqueue.  A request that finds the task of its key returns it and  *)
(* changes nothing.                                                        *)

CreateTask(r, k) ==
  /\ req[r] = Idle
  /\ nextTask \in Tasks
  /\ ExistingIdempotentTask(k) = {}
  /\ req' = [req EXCEPT ![r] = [pc |-> "creating", task |-> nextTask, key |-> k]]
  /\ nextTask' = nextTask + 1
  /\ UNCHANGED <<rows, broker, wrk>>

(* analyze_logs_task.delay(...): the message leaves before the commit *)
Publish(r) ==
  /\ req[r].pc = "creating"
  /\ req' = [req EXCEPT ![r].pc = "published"]
  /\ queue' = queue \cup {req[r].task}
  /\ UNCHANGED <<rows, revoked, retries, nextTask, wrk>>

(* The task and its analysis become visible together, the analysis already *)
(* RUNNING.                                                                *)
CommitEnqueue(r) ==
  /\ req[r].pc = "published"
  /\ status' = [status EXCEPT ![req[r].task] = "queued"]
  /\ key' = [key EXCEPT ![req[r].task] = req[r].key]
  /\ analysis' = [analysis EXCEPT ![req[r].task] = "running"]
  /\ req' = [req EXCEPT ![r] = Idle]
  /\ UNCHANGED <<cancelledAt, created, completed, broker, nextTask, wrk>>

-----------------------------------------------------------------------------
(* API: cancel                                                             *)

(* A terminal task is returned as it is, so only the others go on. *)
ReadForCancel(r, t) ==
  /\ req[r] = Idle
  /\ status[t] \in TaskStatus \ TERMINAL_STATUSES
  /\ req' = [req EXCEPT ![r] = [pc |-> "cancelling", task |-> t]]
  /\ UNCHANGED <<rows, broker, nextTask, wrk>>

(* The UPDATE is flushed and takes the row lock; the revoke is broadcast   *)
(* before the commit and its failure is swallowed.                         *)
FlushCancel(r) ==
  /\ req[r].pc = "cancelling"
  /\ Committed(req[r].task)
  /\ ~Locked(req[r].task)
  /\ req' = [req EXCEPT ![r].pc = "flushed"]
  /\ revoked' \in {revoked, revoked \cup {req[r].task}}
  /\ UNCHANGED <<rows, queue, retries, nextTask, wrk>>

CommitCancel(r) ==
  /\ req[r].pc = "flushed"
  /\ status' = [status EXCEPT ![req[r].task] = "cancelled"]
  /\ cancelledAt' = cancelledAt \cup {req[r].task}
  /\ completed' = [completed EXCEPT ![req[r].task] = "fresh"]
  /\ req' = [req EXCEPT ![r] = Idle]
  /\ UNCHANGED <<key, created, analysis, broker, nextTask, wrk>>

(* get_db rolls the transaction back, or the API process dies.  A message  *)
(* or a revoke that has left stays out.  An UPDATE of a row that a cleanup *)
(* has deleted always ends here (SQLAlchemy's StaleDataError).             *)
AbortRequest(r) ==
  /\ req[r].pc # "idle"
  /\ Faulty \/ (req[r].pc = "cancelling" /\ status[req[r].task] = "deleted")
  /\ req' = [req EXCEPT ![r] = Idle]
  /\ UNCHANGED <<rows, broker, nextTask, wrk>>

-----------------------------------------------------------------------------
(* Worker: _analyze_logs_async                                             *)

(* Celery discards the message of a task whose revoke reached the worker. *)
Receive(w, t) ==
  /\ wrk[w] = Idle
  /\ t \in queue
  /\ queue' = Acknowledged(t)
  /\ wrk' = [wrk EXCEPT ![w] = [pc |-> "received", task |-> t]]
  /\ UNCHANGED <<rows, revoked, retries, nextTask, req>>

DiscardRevoked(w, t) ==
  /\ wrk[w] = Idle
  /\ t \in queue \cap revoked
  /\ queue' = queue \ {t}
  /\ UNCHANGED <<rows, revoked, retries, nextTask, req, wrk>>

(* repo.get_analysis_for_user *)
MissAnalysis(w) ==
  /\ wrk[w].pc = "received"
  /\ analysis[wrk[w].task] = "absent"
  /\ wrk' = [wrk EXCEPT ![w] = [pc |-> "orphan", task |-> wrk[w].task]]
  /\ UNCHANGED <<rows, broker, nextTask, req>>

(* mark_failed(NOT_FOUND) reads the task, which may have been committed in *)
(* the meantime; without one, or with a cancelled one, it does nothing.    *)
LoadOrphan(w) ==
  LET t == wrk[w].task
  IN /\ wrk[w].pc = "orphan"
     /\ wrk' = [wrk EXCEPT ![w] =
          IF Committed(t) /\ status[t] # "cancelled"
          THEN [pc |-> "failing", task |-> t, seen |-> status[t]]
          ELSE Idle]
     /\ UNCHANGED <<rows, broker, nextTask, req>>

FailOrphan(w) ==
  LET t == wrk[w].task
  IN /\ wrk[w].pc = "failing"
     /\ ~Locked(t)
     /\ status' = [status EXCEPT ![t] = "failed"]
     /\ completed' = [completed EXCEPT ![t] = "fresh"]
     /\ wrk' = [wrk EXCEPT ![w] = Idle]
     /\ UNCHANGED <<cancelledAt, key, created, analysis, broker, nextTask, req>>

(* Both rows are found; background_task stays loaded until the end. *)
LoadRows(w) ==
  LET t == wrk[w].task
  IN /\ wrk[w].pc = "received"
     /\ analysis[t] # "absent"
     /\ Committed(t)
     /\ wrk' = [wrk EXCEPT ![w] = [pc |-> "loaded", task |-> t, seen |-> status[t]]]
     /\ UNCHANGED <<rows, broker, nextTask, req>>

(* mark_running and the first commit.  A task loaded as queued is written  *)
(* without a second look; one loaded as running needs no UPDATE, and       *)
(* repository.update's refresh reloads it; one loaded as terminal is left  *)
(* alone, but the worker goes on.                                          *)
MarkRunning(w) ==
  LET t == wrk[w].task
      writes == MarksRunning(wrk[w].seen)
  IN /\ wrk[w].pc = "loaded"
     /\ Committed(t)
     /\ writes => ~Locked(t)
     /\ status' = [status EXCEPT ![t] = IF writes THEN "running" ELSE @]
     /\ wrk' = [wrk EXCEPT
          ![w] = [pc |-> "generating", task |-> t,
                  seen |-> CASE writes -> "running"
                             [] wrk[w].seen = "running" -> status[t]
                             [] OTHER -> wrk[w].seen]]
     /\ UNCHANGED <<cancelledAt, key, created, completed, analysis,
                    broker, nextTask, req>>

(* update_analysis, then mark_succeeded or mark_failed, whose only guard   *)
(* is that the LOADED status is not cancelled; one commit.                 *)
Finish(w, outcome, analysisOutcome) ==
  LET t == wrk[w].task
      writes == WritesVerdict(wrk[w].seen)
  IN /\ wrk[w].pc = "generating"
     /\ writes => ~Locked(t)
     /\ status' = [status EXCEPT ![t] = IF writes THEN outcome ELSE @]
     /\ completed' = [completed EXCEPT ![t] = IF writes THEN "fresh" ELSE @]
     /\ analysis' = [analysis EXCEPT ![t] = analysisOutcome]
     /\ wrk' = [wrk EXCEPT ![w] = Idle]
     /\ UNCHANGED <<cancelledAt, key, created, broker, nextTask, req>>

\* a slip: the task is marked, the analysis is not
SucceedTaskOnly(w) == Finish(w, "succeeded", "running")

Succeed(w) == Finish(w, "succeeded", "completed")
Fail(w)    == Finish(w, "failed", "failed")

(* A ConnectionError, TimeoutError or OSError leaves _analyze_logs_async:  *)
(* its transaction is lost and autoretry publishes the message again.      *)
Retry(w) ==
  LET t == wrk[w].task
  IN /\ wrk[w].pc # "idle"
     /\ RetryAllowed(t)
     /\ retries' = [retries EXCEPT ![t] = @ + 1]
     /\ queue' = Republished(t)
     /\ wrk' = [wrk EXCEPT ![w] = Idle]
     /\ UNCHANGED <<rows, revoked, nextTask, req>>

(* The workers that may be lost *)
Mortal == IF Faulty THEN Workers ELSE {}

(* The process dies or hits the hard time limit, or any other exception    *)
(* leaves the task: the acknowledged message is gone.                      *)
LoseWorker(w) ==
  /\ wrk[w].pc # "idle"
  /\ wrk' = [wrk EXCEPT ![w] = Idle]
  /\ UNCHANGED <<rows, broker, nextTask, req>>

-----------------------------------------------------------------------------
(* Retention                                                               *)

(* The retention period passes.  It is days long, a run at most ten        *)
(* minutes: nothing in flight ages.                                        *)
PassRetention(t) ==
  /\ Committed(t)
  /\ created[t] = "fresh" \/ (status[t] \in TERMINAL_STATUSES /\ completed[t] = "fresh")
  /\ t \notin queue
  /\ \A r \in Requests : ~Cancelling(r, t)
  /\ \A w \in Workers : ~Running(w, t)
  /\ created' = [created EXCEPT ![t] = "old"]
  /\ completed' = [completed EXCEPT
       ![t] = IF status[t] \in TERMINAL_STATUSES THEN "old" ELSE @]
  /\ UNCHANGED <<status, cancelledAt, key, analysis, broker, nextTask, req, wrk>>

(* cleanup_background_tasks: one DELETE; it waits for locked rows *)
CleanupExpiredTasks ==
  LET expired == {t \in Tasks : Expired(t)}
  IN /\ expired # {}
     /\ \A t \in expired : ~Locked(t)
     /\ status' = [t \in Tasks |-> IF t \in expired THEN "deleted" ELSE status[t]]
     /\ UNCHANGED <<cancelledAt, key, created, completed, analysis,
                    broker, nextTask, req, wrk>>

-----------------------------------------------------------------------------
RequestStep(r) == Publish(r) \/ CommitEnqueue(r) \/ FlushCancel(r) \/ CommitCancel(r)

WorkerStep(w) ==
  \/ \E t \in Tasks : Receive(w, t) \/ DiscardRevoked(w, t)
  \/ MissAnalysis(w) \/ LoadOrphan(w) \/ FailOrphan(w) \/ LoadRows(w)
  \/ MarkRunning(w) \/ Succeed(w) \/ Fail(w)

Next ==
  \/ \E r \in Requests :
       \/ \E k \in Keys \cup {NoKey} : CreateTask(r, k)
       \/ \E t \in Tasks : ReadForCancel(r, t)
       \/ RequestStep(r)
       \/ AbortRequest(r)
  \/ \E w \in Workers : WorkerStep(w) \/ Retry(w)
  \/ \E w \in Mortal : LoseWorker(w)
  \/ \E t \in Tasks : PassRetention(t)
  \/ CleanupExpiredTasks

Spec == Init /\ [][Next]_vars

(* A request that has started runs to its end, and a live worker takes     *)
(* messages and finishes them.  Users need not cancel, nothing need retry, *)
(* and no schedule runs the cleanup.                                       *)
FairSpec ==
  /\ Spec
  /\ \A r \in Requests : WF_vars(RequestStep(r))
  /\ \A w \in Workers : WF_vars(WorkerStep(w))
-----------------------------------------------------------------------------
(* Properties                                                              *)

Settled(t) == status[t] \in TERMINAL_STATUSES \cup {"deleted"}

(* Nothing guards a task against running twice but the life of its one     *)
(* message: it is on the broker or with one worker, never both, whatever   *)
(* retries, revokes and lost workers do.                                   *)
OneRunPerTask ==
  \A t \in Tasks :
    /\ \A w \in Workers : Running(w, t) => t \notin queue
    /\ \A v, w \in Workers : Running(v, t) /\ Running(w, t) => v = w

(* While a message or a worker still carries a task, no OTHER party has    *)
(* finished it: mark_succeeded and mark_failed, which test only for        *)
(* CANCELLED, never overwrite each other's verdict.                        *)
UnfinishedWhileCarried ==
  \A t \in Tasks :
    (t \in queue \/ \E w \in Workers : Running(w, t))
      => status[t] \notin {"succeeded", "failed", "deleted"}

(* The verdict on the task agrees with the analysis the user reads: both   *)
(* are written by different calls with different guards.                   *)
VerdictMatchesAnalysis ==
  \A t \in Tasks :
    /\ status[t] = "succeeded" => analysis[t] = "completed"
    /\ status[t] = "failed" => analysis[t] # "completed"

(* A worker holds a copy of the task from before its cancel committed.     *)
Unaware(t) ==
  \E w \in Workers : /\ Running(w, t)
                     /\ wrk[w].pc \in {"failing", "loaded", "generating"}
                     /\ wrk[w].seen # "cancelled"

(* What cancellation does promise: a cancelled task that no worker had     *)
(* already loaded is never run to a verdict, however often its message is  *)
(* retried; it stays cancelled until the cleanup deletes it.               *)
CancelSticks ==
  [][\A t \in Tasks : status[t] = "cancelled" /\ ~Unaware(t)
                        => status'[t] \in {"cancelled", "deleted"}]_vars

(* A verdict is only ever overwritten by a cancel that had read the task   *)
(* before the verdict.                                                     *)
VerdictsAreFinal ==
  [][\A t \in Tasks : status[t] \in {"succeeded", "failed"} /\ status'[t] # status[t]
       => \/ status'[t] = "deleted"
          \/ /\ status'[t] = "cancelled"
             /\ \E r \in Requests : req[r].pc = "flushed" /\ req[r].task = t]_vars

(* Liveness without aborts and lost workers: a task whose rows were        *)
(* committed while its message was still on the broker reaches an end,     *)
(* retried or not.  A cancelled one need not: mark_running can overwrite   *)
(* the cancel, and the revoke then discards the retry of a running task.   *)
DeliveredTasksSettle ==
  \A t \in Tasks :
    (t \in queue /\ Committed(t)) ~> (Settled(t) \/ t \in cancelledAt)

-----------------------------------------------------------------------------
(* What the repository says, and the code does not do                      *)

(* services/log_analyzer.py:280 "Celery receives only the persisted        *)
(* task/analysis IDs": the worker finds the rows its message names.  But   *)
(* delay() runs before the commit, and an orphan worker leaves the task    *)
(* queued for ever.                                                        *)
WorkerFindsRows == \A w \in Workers : wrk[w].pc # "orphan"

(* backend/README.md:31 "Persistent background tasks with cancellation":   *)
(* a task whose cancel was committed is never reported as succeeded.       *)
CancelledNeverSucceeds ==
  \A t \in Tasks : t \in cancelledAt => status[t] # "succeeded"
=============================================================================
