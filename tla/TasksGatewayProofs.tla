-------------------------- MODULE TasksGatewayProofs --------------------------
(* TLAPS proofs about BackgroundTasks, for every number of tasks, requests, *)
(* workers, keys and retries, and about LlmGateway, for any number of       *)
(* requests, processes and providers.                                       *)
EXTENDS BackgroundTasks, LlmGateway, SequenceTheorems, FiniteSetTheorems, WellFoundedInduction, TLAPS

(* BackgroundTasks: its invariants and the two action properties that no   *)
(* fairness is needed for                                                  *)

Carried(t) == t \in queue \/ \E w \in Workers : Running(w, t)

(* A task that is carried has not been decided, analysed or aged. *)
CarriedIsOpen ==
  \A t \in Tasks : Carried(t) =>
    /\ status[t] \notin {"succeeded", "failed", "deleted"}
    /\ analysis[t] \in {"absent", "running"}
    /\ created[t] = "fresh"

AbsentIsUntouched ==
  \A t \in Tasks : status[t] = "absent" => analysis[t] = "absent" /\ created[t] = "fresh"

(* An id is used by one creating request, and by nothing else until its    *)
(* message is published.                                                   *)
CreatingOwns ==
  /\ \A r \in Requests, t \in Tasks : Creating(r, t) =>
       /\ status[t] = "absent"
       /\ t < nextTask
       /\ req[r].pc = "creating" => ~Carried(t)
  /\ \A q, r \in Requests, t \in Tasks : Creating(q, t) /\ Creating(r, t) => q = r

FreshIsUnused ==
  \A t \in Tasks : t >= nextTask => status[t] = "absent" /\ ~Carried(t)

FailingIsNotCancelled ==
  \A w \in Workers : wrk[w].pc = "failing" => wrk[w].seen # "cancelled"

(* Whoever has loaded a row finds it committed: rows are deleted, never    *)
(* un-inserted.                                                            *)
LoadedIsPresent ==
  /\ \A r \in Requests, t \in Tasks : Cancelling(r, t) => status[t] # "absent"
  /\ \A w \in Workers : wrk[w].pc \in {"failing", "loaded", "generating"}
                           => status[wrk[w].task] # "absent"

(* The inductive invariant: OneRunPerTask and VerdictMatchesAnalysis need  *)
(* to know what a carried task cannot be and who owns a fresh id.          *)
Parts ==
  /\ OneRunPerTask
  /\ VerdictMatchesAnalysis
  /\ CarriedIsOpen
  /\ AbsentIsUntouched
  /\ CreatingOwns
  /\ FreshIsUnused
  /\ FailingIsNotCancelled
  /\ LoadedIsPresent
IInv == TypeOK /\ Parts

-----------------------------------------------------------------------------
LEMMA InitIInv == Init => IInv
BY BoundsAssumption
   DEF Init, IInv, Parts, TypeOK, Tasks, RequestState, WorkerState, Idle, OneRunPerTask,
       Running, VerdictMatchesAnalysis, CarriedIsOpen, Carried, AbsentIsUntouched,
       CreatingOwns, Creating, FreshIsUnused, FailingIsNotCancelled,
       LoadedIsPresent, Cancelling

(* A request or a worker has the fields its pc says. *)
LEMMA RequestShapes ==
  ASSUME NEW x \in RequestState
  PROVE  /\ x.pc \in {"creating", "published"} => x \in EnqueueState
         /\ x.pc \in {"cancelling", "flushed"} => x \in CancelState
         /\ x.pc # "idle" => x.task \in Tasks
BY DEF RequestState, EnqueueState, CancelState, Idle

LEMMA WorkerShapes ==
  ASSUME NEW x \in WorkerState
  PROVE  /\ x.pc \in {"received", "orphan"} => x \in ReceivedState
         /\ x.pc \in {"failing", "loaded", "generating"} => x \in LoadedState
         /\ x.pc # "idle" => x.task \in Tasks
BY DEF WorkerState, ReceivedState, LoadedState, Idle

LEMMA TypeStep == TypeOK /\ [Next]_vars => TypeOK'
<1> SUFFICES ASSUME TypeOK, [Next]_vars PROVE TypeOK'
  OBVIOUS
<1> USE BoundsAssumption DEF TypeOK, Tasks, rows, broker
<1>a. \A r \in Requests :
        /\ req[r].pc \in {"creating", "published"} => req[r] \in EnqueueState
        /\ req[r].pc \in {"cancelling", "flushed"} => req[r] \in CancelState
        /\ req[r].pc # "idle" => req[r].task \in Tasks
  BY RequestShapes
<1>b. \A w \in Workers :
        /\ wrk[w].pc \in {"received", "orphan"} => wrk[w] \in ReceivedState
        /\ wrk[w].pc \in {"failing", "loaded", "generating"} => wrk[w] \in LoadedState
        /\ wrk[w].pc # "idle" => wrk[w].task \in Tasks
  BY WorkerShapes
<1>c. Idle \in RequestState /\ Idle \in WorkerState
  BY DEF RequestState, WorkerState
<1>1. ASSUME NEW r \in Requests, NEW k \in Keys \cup {NoKey}, CreateTask(r, k)
      PROVE  TypeOK'
  <2>1. [pc |-> "creating", task |-> nextTask, key |-> k] \in RequestState
    BY <1>1 DEF CreateTask, RequestState, EnqueueState
  <2> QED BY <1>1, <2>1 DEF CreateTask
<1>2. ASSUME NEW r \in Requests, Publish(r) PROVE TypeOK'
  <2>1. req[r] \in EnqueueState
    BY <1>2, <1>a DEF Publish
  <2>2. [req[r] EXCEPT !.pc = "published"] \in RequestState
    BY <2>1 DEF RequestState, EnqueueState
  <2>3. req' = [req EXCEPT ![r] = [req[r] EXCEPT !.pc = "published"]]
    BY <1>2 DEF Publish
  <2>4. queue' \subseteq Tasks
    BY <1>2, <2>1 DEF Publish, EnqueueState
  <2> QED BY <1>2, <2>2, <2>3, <2>4 DEF Publish
<1>3. ASSUME NEW r \in Requests, CommitEnqueue(r) PROVE TypeOK'
  <2>1. req[r].task \in Tasks /\ req[r].key \in Keys \cup {NoKey}
    BY <1>3, <1>a DEF CommitEnqueue, EnqueueState
  <2> QED BY <1>3, <1>c, <2>1 DEF CommitEnqueue, TaskStatus
<1>4. ASSUME NEW r \in Requests, NEW t \in Tasks, ReadForCancel(r, t) PROVE TypeOK'
  <2>1. [pc |-> "cancelling", task |-> t] \in RequestState
    BY DEF RequestState, CancelState
  <2> QED BY <1>4, <2>1 DEF ReadForCancel
<1>5. ASSUME NEW r \in Requests, FlushCancel(r) PROVE TypeOK'
  <2>1. req[r] \in CancelState
    BY <1>5, <1>a DEF FlushCancel
  <2>2. [req[r] EXCEPT !.pc = "flushed"] \in RequestState
    BY <2>1 DEF RequestState, CancelState
  <2>3. req' = [req EXCEPT ![r] = [req[r] EXCEPT !.pc = "flushed"]]
    BY <1>5 DEF FlushCancel
  <2>4. revoked' \subseteq Tasks
    BY <1>5, <2>1 DEF FlushCancel, CancelState
  <2> QED BY <1>5, <2>2, <2>3, <2>4 DEF FlushCancel
<1>6. ASSUME NEW r \in Requests, CommitCancel(r) PROVE TypeOK'
  <2>1. req[r].task \in Tasks
    BY <1>6, <1>a DEF CommitCancel
  <2> QED BY <1>6, <1>c, <2>1 DEF CommitCancel, TaskStatus
<1>7. ASSUME NEW r \in Requests, AbortRequest(r) PROVE TypeOK'
  BY <1>7, <1>c DEF AbortRequest
<1>8. ASSUME NEW w \in Workers, NEW t \in Tasks, Receive(w, t) PROVE TypeOK'
  <2>1. [pc |-> "received", task |-> t] \in WorkerState
    BY DEF WorkerState, ReceivedState
  <2> QED BY <1>8, <2>1 DEF Receive, Acknowledged
<1>9. ASSUME NEW w \in Workers, NEW t \in Tasks, DiscardRevoked(w, t) PROVE TypeOK'
  BY <1>9 DEF DiscardRevoked
<1>10. ASSUME NEW w \in Workers, MissAnalysis(w) PROVE TypeOK'
  <2>1. wrk[w].task \in Tasks
    BY <1>10, <1>b DEF MissAnalysis
  <2>2. [pc |-> "orphan", task |-> wrk[w].task] \in WorkerState
    BY <2>1 DEF WorkerState, ReceivedState
  <2> QED BY <1>10, <2>2 DEF MissAnalysis
<1>11. ASSUME NEW w \in Workers, LoadOrphan(w) PROVE TypeOK'
  <2> DEFINE t == wrk[w].task
             x == [pc |-> "failing", task |-> t, seen |-> status[t]]
  <2>1. t \in Tasks
    BY <1>11, <1>b DEF LoadOrphan
  <2>2. Committed(t) => x \in WorkerState
    BY <2>1 DEF WorkerState, LoadedState, Committed
  <2> QED BY <1>11, <1>c, <2>2 DEF LoadOrphan
<1>12. ASSUME NEW w \in Workers, FailOrphan(w) PROVE TypeOK'
  <2>1. wrk[w].task \in Tasks
    BY <1>12, <1>b DEF FailOrphan
  <2> QED BY <1>12, <1>c, <2>1 DEF FailOrphan, TaskStatus
<1>13. ASSUME NEW w \in Workers, LoadRows(w) PROVE TypeOK'
  <2> DEFINE t == wrk[w].task
  <2>1. t \in Tasks /\ Committed(t)
    BY <1>13, <1>b DEF LoadRows
  <2>2. [pc |-> "loaded", task |-> t, seen |-> status[t]] \in WorkerState
    BY <2>1 DEF WorkerState, LoadedState, Committed
  <2> QED BY <1>13, <2>2 DEF LoadRows
<1>14. ASSUME NEW w \in Workers, MarkRunning(w) PROVE TypeOK'
  <2> DEFINE t == wrk[w].task
             then == CASE MarksRunning(wrk[w].seen) -> "running"
                       [] wrk[w].seen = "running" -> status[t]
                       [] OTHER -> wrk[w].seen
  <2>1. t \in Tasks /\ wrk[w].seen \in TaskStatus /\ status[t] \in TaskStatus
    BY <1>14, <1>b DEF MarkRunning, LoadedState, Committed
  <2>2. then \in TaskStatus
    BY <2>1 DEF MarksRunning, TaskStatus
  <2>3. [pc |-> "generating", task |-> t, seen |-> then] \in WorkerState
    BY <2>1, <2>2 DEF WorkerState, LoadedState
  <2>4. wrk' \in [Workers -> WorkerState]
    BY <1>14, <2>3 DEF MarkRunning, MarksRunning
  <2> QED BY <1>14, <2>1, <2>4 DEF MarkRunning, TaskStatus
<1>15. ASSUME NEW w \in Workers, Succeed(w) \/ Fail(w) PROVE TypeOK'
  <2>1. wrk[w].task \in Tasks
    BY <1>15, <1>b DEF Succeed, Fail, Finish
  <2>2. CASE Succeed(w)
    BY <2>1, <2>2, <1>c DEF Succeed, Finish, TaskStatus
  <2>3. CASE Fail(w)
    BY <2>1, <2>3, <1>c DEF Fail, Finish, TaskStatus
  <2> QED BY <1>15, <2>2, <2>3
<1>16. ASSUME NEW w \in Workers, Retry(w) PROVE TypeOK'
  <2>1. wrk[w].task \in Tasks
    BY <1>16, <1>b DEF Retry
  <2>2. retries' \in [Tasks -> 0..MaxRetries]
    BY <1>16, <2>1 DEF Retry, RetryAllowed
  <2> QED BY <1>16, <1>c, <2>1, <2>2 DEF Retry, Republished
<1>17. ASSUME NEW w \in Workers, LoseWorker(w) PROVE TypeOK'
  BY <1>17, <1>c DEF LoseWorker
<1>18. ASSUME NEW t \in Tasks, PassRetention(t) PROVE TypeOK'
  BY <1>18 DEF PassRetention
<1>19. CASE CleanupExpiredTasks
  BY <1>19 DEF CleanupExpiredTasks
<1>20. CASE UNCHANGED vars
  BY SMTT(30), <1>20 DEF vars
<1> QED
  BY <1>1, <1>2, <1>3, <1>4, <1>5, <1>6, <1>7, <1>8, <1>9, <1>10, <1>11, <1>12,
     <1>13, <1>14, <1>15, <1>16, <1>17, <1>18, <1>19, <1>20
     DEF Next, RequestStep, WorkerStep, Mortal

(* One step per action; CarriedIsOpen is what lets a worker write a        *)
(* verdict, CreatingOwns what lets a message be published.                 *)
LEMMA PartsStep ==
  ASSUME TypeOK, Parts, [Next]_vars
  PROVE  Parts'
<1> USE DEF Parts, OneRunPerTask, VerdictMatchesAnalysis, CarriedIsOpen, Carried,
           AbsentIsUntouched, CreatingOwns, Creating, FreshIsUnused,
           FailingIsNotCancelled, LoadedIsPresent, Cancelling, Running, Idle,
           rows, broker, TypeOK, Tasks
<1>a. \A w \in Workers : wrk[w].pc # "idle" => wrk[w].task \in Tasks
  BY WorkerShapes
<1>b. \A r \in Requests : req[r].pc # "idle" => req[r].task \in Tasks
  BY RequestShapes
<1>1. ASSUME NEW r \in Requests, NEW k \in Keys \cup {NoKey}, CreateTask(r, k) PROVE Parts'
  BY <1>1, <1>a, <1>b DEF CreateTask
<1>2. ASSUME NEW r \in Requests, Publish(r) PROVE Parts'
  BY <1>2, <1>a, <1>b DEF Publish
<1>3. ASSUME NEW r \in Requests, CommitEnqueue(r) PROVE Parts'
  BY <1>3, <1>a, <1>b DEF CommitEnqueue
<1>4. ASSUME NEW r \in Requests, NEW t \in Tasks, ReadForCancel(r, t) PROVE Parts'
  BY <1>4, <1>a, <1>b DEF ReadForCancel, TaskStatus
<1>5. ASSUME NEW r \in Requests, FlushCancel(r) PROVE Parts'
  BY <1>5, <1>a, <1>b DEF FlushCancel
<1>6. ASSUME NEW r \in Requests, CommitCancel(r) PROVE Parts'
  BY <1>6, <1>a, <1>b DEF CommitCancel
<1>7. ASSUME NEW r \in Requests, AbortRequest(r) PROVE Parts'
  BY <1>7, <1>a, <1>b DEF AbortRequest
<1>8. ASSUME NEW w \in Workers, NEW t \in Tasks, Receive(w, t) PROVE Parts'
  BY <1>8, <1>a, <1>b DEF Receive, Acknowledged
<1>9. ASSUME NEW w \in Workers, NEW t \in Tasks, DiscardRevoked(w, t) PROVE Parts'
  BY <1>9, <1>a, <1>b DEF DiscardRevoked
<1>10. ASSUME NEW w \in Workers, MissAnalysis(w) PROVE Parts'
  BY <1>10, <1>a, <1>b DEF MissAnalysis
<1>11. ASSUME NEW w \in Workers, LoadOrphan(w) PROVE Parts'
  BY <1>11, <1>a, <1>b DEF LoadOrphan, Committed, TaskStatus
<1>12. ASSUME NEW w \in Workers, FailOrphan(w) PROVE Parts'
  BY <1>12, <1>a, <1>b DEF FailOrphan
<1>13. ASSUME NEW w \in Workers, LoadRows(w) PROVE Parts'
  BY <1>13, <1>a, <1>b DEF LoadRows, Committed
<1>14. ASSUME NEW w \in Workers, MarkRunning(w) PROVE Parts'
  BY <1>14, <1>a, <1>b DEF MarkRunning, Committed
<1>15. ASSUME NEW w \in Workers, Succeed(w) PROVE Parts'
  BY <1>15, <1>a, <1>b DEF Succeed, Finish
<1>16. ASSUME NEW w \in Workers, Fail(w) PROVE Parts'
  BY <1>16, <1>a, <1>b DEF Fail, Finish
<1>17. ASSUME NEW w \in Workers, Retry(w) PROVE Parts'
  BY <1>17, <1>a, <1>b DEF Retry, Republished
<1>18. ASSUME NEW w \in Workers, LoseWorker(w) PROVE Parts'
  BY <1>18, <1>a, <1>b DEF LoseWorker
<1>19. ASSUME NEW t \in Tasks, PassRetention(t) PROVE Parts'
  BY <1>19, <1>a, <1>b DEF PassRetention, Committed, TaskStatus
<1>20. CASE CleanupExpiredTasks
  BY <1>20, <1>a, <1>b DEF CleanupExpiredTasks, Expired
<1>21. CASE UNCHANGED vars
  BY <1>21, <1>a, <1>b DEF vars
<1> QED
  BY <1>1, <1>2, <1>3, <1>4, <1>5, <1>6, <1>7, <1>8, <1>9, <1>10, <1>11, <1>12,
     <1>13, <1>14, <1>15, <1>16, <1>17, <1>18, <1>19, <1>20, <1>21
     DEF Next, RequestStep, WorkerStep, Mortal

LEMMA Invariance == Spec => []IInv
<1>1. IInv /\ [Next]_vars => IInv'
  BY TypeStep, PartsStep DEF IInv
<1> QED
  BY <1>1, InitIInv, PTL DEF Spec

-----------------------------------------------------------------------------
(* Every variable keeps its type: in particular the loaded statuses are    *)
(* real ones and no message is retried more than celery_max_retries times. *)
THEOREM TypeCorrect == Spec => []TypeOK
BY Invariance, PTL DEF IInv

(* workers/tasks.py, celery_app.py: a task is on the broker or with one    *)
(* worker, never both and never with two.                                  *)
THEOREM SingleRun == Spec => []OneRunPerTask
<1>1. IInv => OneRunPerTask
  BY DEF IInv, Parts
<1> QED BY <1>1, Invariance, PTL

(* task_service.py mark_succeeded, mark_failed: while a message or worker  *)
(* carries a task, no verdict has been written that a second one could     *)
(* overwrite.                                                              *)
THEOREM CarriedUndecided == Spec => []UnfinishedWhileCarried
<1>1. IInv => UnfinishedWhileCarried
  BY DEF IInv, Parts, CarriedIsOpen, Carried, UnfinishedWhileCarried
<1> QED BY <1>1, Invariance, PTL

(* workers/tasks.py: the task's verdict agrees with the analysis.          *)
THEOREM VerdictsAgree == Spec => []VerdictMatchesAnalysis
<1>1. IInv => VerdictMatchesAnalysis
  BY DEF IInv, Parts
<1> QED BY <1>1, Invariance, PTL

(* A step that changes the status of task t, by the action that did it.    *)
LEMMA StatusChanges ==
  ASSUME IInv, [Next]_vars, NEW t \in Tasks, status'[t] # status[t]
  PROVE  \/ status[t] = "absent"
         \/ /\ status'[t] = "cancelled"
            /\ \E r \in Requests : req[r].pc = "flushed" /\ req[r].task = t
         \/ \E w \in Workers : /\ Running(w, t)
                               /\ wrk[w].pc \in {"failing", "loaded", "generating"}
                               /\ wrk[w].seen # "cancelled"
         \/ status'[t] = "deleted"
<1> USE DEF IInv, TypeOK, rows, broker
<1>1. ASSUME NEW r \in Requests, CommitEnqueue(r) PROVE status[t] = "absent"
  <2>1. req[r].task = t
    BY <1>1 DEF CommitEnqueue
  <2> QED BY <1>1, <2>1 DEF CommitEnqueue, Parts, CreatingOwns, Creating
<1>2. ASSUME NEW r \in Requests, CommitCancel(r)
      PROVE  status'[t] = "cancelled" /\ req[r].pc = "flushed" /\ req[r].task = t
  BY <1>2 DEF CommitCancel
<1>3. ASSUME NEW w \in Workers, FailOrphan(w) \/ MarkRunning(w) \/ Succeed(w) \/ Fail(w)
      PROVE  /\ Running(w, t)
             /\ wrk[w].pc \in {"failing", "loaded", "generating"}
             /\ wrk[w].seen # "cancelled"
  BY <1>3 DEF FailOrphan, MarkRunning, Succeed, Fail, Finish, MarksRunning, WritesVerdict,
              Running, Parts, FailingIsNotCancelled
<1>4. CASE CleanupExpiredTasks
  BY <1>4 DEF CleanupExpiredTasks
<1> QED
  BY <1>1, <1>2, <1>3, <1>4
     DEF Next, RequestStep, WorkerStep, vars, CreateTask, ReadForCancel, Publish,
         FlushCancel, AbortRequest, Receive, DiscardRevoked, MissAnalysis, LoadOrphan,
         LoadRows, Retry, LoseWorker, PassRetention

(* task_service.py cancel_task, mark_running: a cancelled task that no     *)
(* worker holds an older copy of stays cancelled until it is deleted.      *)
THEOREM CancelIsRespected == Spec => CancelSticks
<1>1. IInv /\ [Next]_vars
        => [\A t \in Tasks : status[t] = "cancelled" /\ ~Unaware(t)
                               => status'[t] \in {"cancelled", "deleted"}]_vars
  BY StatusChanges DEF Unaware
<1> QED BY <1>1, Invariance, PTL DEF Spec, CancelSticks

(* task_service.py: a verdict is overwritten only by a cancel that read    *)
(* the task before it, or deleted by the cleanup.                          *)
THEOREM VerdictsStay == Spec => VerdictsAreFinal
<1>1. ASSUME IInv, [Next]_vars, NEW t \in Tasks,
             status[t] \in {"succeeded", "failed"}, status'[t] # status[t]
      PROVE  \/ status'[t] = "deleted"
             \/ /\ status'[t] = "cancelled"
                /\ \E r \in Requests : req[r].pc = "flushed" /\ req[r].task = t
  <2>1. \A w \in Workers : ~Running(w, t)
    BY <1>1 DEF IInv, Parts, CarriedIsOpen, Carried
  <2> QED BY <1>1, <2>1, StatusChanges
<1>2. IInv /\ [Next]_vars
        => [\A t \in Tasks : status[t] \in {"succeeded", "failed"} /\ status'[t] # status[t]
              => \/ status'[t] = "deleted"
                 \/ /\ status'[t] = "cancelled"
                    /\ \E r \in Requests : req[r].pc = "flushed" /\ req[r].task = t]_vars
  BY <1>1
<1> QED BY <1>2, Invariance, PTL DEF Spec, VerdictsAreFinal

-----------------------------------------------------------------------------
(* LlmGateway: circuits open only for failures and can recover, and the    *)
(* quota is overshot by no more than the requests in flight.               *)

(* Breaker data that n recorded failures account for, at time t *)
Sound(n, t, d) ==
  /\ d \in Data
  /\ d.failures <= n
  /\ d.state = "open" => d.failures >= Threshold /\ d.openedAt \in 1..t
  /\ d.state = "closed" => d.failures < Threshold

CountersInv ==
  /\ now \in Nat \ {0}
  /\ failed \in [Providers -> Nat]
  /\ usage \in Nat

(* What Redis and the processes hold is sound. *)
StoresInv ==
  /\ DOMAIN stored = Providers
  /\ \A p \in Providers : stored[p] # NoProvider => Sound(failed[p], now, stored[p])
  /\ DOMAIN memory = Processes
  /\ \A s \in Processes :
       /\ DOMAIN memory[s] = Providers
       /\ \A p \in Providers : Sound(failed[p], now, memory[s][p])

IsRequest(x) == DOMAIN x = {"pc", "process", "kind", "chain", "loaded", "outcome"}

(* What a request has loaded, or is about to write, is sound for its       *)
(* provider, though others may have overtaken it meanwhile.                *)
RequestSound(f, t, x) ==
  /\ IsRequest(x)
  /\ x.pc # "idle" => x.process \in Processes
  /\ x.pc \in {"probing", "saving", "writing"} /\ Head(x.chain) \in Providers =>
       Sound(f[Head(x.chain)], t, x.loaded)

RequestsInv ==
  /\ DOMAIN call = Calls
  /\ \A r \in Calls : RequestSound(failed, now, call[r])

GatewayIInv == CountersInv /\ StoresInv /\ RequestsInv

-----------------------------------------------------------------------------
(* Sound data                                                              *)

LEMMA NoDataSound ==
  ASSUME NEW n \in Nat, NEW t \in Nat
  PROVE  Sound(n, t, NoData)
BY GatewayAssumption DEF Sound, NoData, Data

(* What was sound stays so: failures and the clock only grow. *)
LEMMA SoundStays ==
  ASSUME NEW n \in Nat, NEW t \in Nat, NEW m \in Nat, NEW u \in Nat,
         n <= m, t <= u, NEW d, Sound(n, t, d)
  PROVE  Sound(m, u, d)
BY DEF Sound, Data

LEMMA UpdatedData ==
  ASSUME NEW d \in Data, NEW n \in Nat
  PROVE  /\ [d EXCEPT !.state = "closed", !.failures = n] \in Data
         /\ [d EXCEPT !.state = "closed", !.failures = n].state = "closed"
         /\ [d EXCEPT !.state = "closed", !.failures = n].failures = n
BY DEF Data

(* The data that a request saves is sound, whenever it was loaded. *)
LEMMA SuccessIsSound ==
  ASSUME NEW n \in Nat, NEW t \in Nat, NEW d, Sound(n, t, d)
  PROVE  Sound(n, t, AfterSuccess(d))
<1>1. d \in Data /\ 0 \in Nat
  BY DEF Sound
<1>2. AfterSuccess(d) \in Data /\ AfterSuccess(d).state = "closed" /\ AfterSuccess(d).failures = 0
  BY <1>1, UpdatedData, Zenon DEF AfterSuccess
<1> QED BY <1>2, GatewayAssumption DEF Sound

LEMMA HalfOpenIsSound ==
  ASSUME NEW n \in Nat, NEW t \in Nat, NEW d, Sound(n, t, d)
  PROVE  Sound(n, t, [d EXCEPT !.state = "half_open"])
BY DEF Sound, Data

LEMMA FailureIsSound ==
  ASSUME CountersInv, NEW n \in Nat, NEW d, Sound(n, now, d)
  PROVE  Sound(n + 1, now, AfterFailure(d))
<1>1. d \in Data /\ d.failures \in Nat
  BY DEF Sound, Data
<1>2. CASE d.failures + 1 >= Threshold
  BY <1>1, <1>2 DEF AfterFailure, Sound, Data, CountersInv
<1>3. CASE ~(d.failures + 1 >= Threshold)
  <2>1. AfterFailure(d) = [d EXCEPT !.state = "closed", !.failures = d.failures + 1]
    BY <1>3 DEF AfterFailure
  <2>2. PICK m \in Nat : m = d.failures + 1
    BY <1>1
  <2>3. AfterFailure(d) = [d EXCEPT !.state = "closed", !.failures = m]
    BY <2>1, <2>2, Zenon
  <2>4. /\ AfterFailure(d) \in Data
        /\ AfterFailure(d).state = "closed"
        /\ AfterFailure(d).failures = m
    <3> DEFINE e == [d EXCEPT !.state = "closed", !.failures = m]
    <3>1. e \in Data /\ e.state = "closed" /\ e.failures = m
      BY <1>1, UpdatedData
    <3> HIDE DEF e
    <3>2. AfterFailure(d) = e
      BY <2>3 DEF e
    <3> QED BY <3>1, <3>2
  <2> QED BY <1>1, <1>3, <2>2, <2>4, GatewayAssumption DEF Sound
<1> QED BY <1>2, <1>3

LEMMA LoadIsSound ==
  ASSUME GatewayIInv, NEW r \in Calls, call[r].pc # "idle", NEW p \in Providers
  PROVE  Sound(failed[p], now, Load(r, p))
BY DEF GatewayIInv, StoresInv, RequestsInv, RequestSound, Load

-----------------------------------------------------------------------------
(* Calls                                                                   *)

LEMMA IdleFields == NoCall.pc = "idle" /\ IsRequest(NoCall)
BY DEF NoCall, IsRequest

LEMMA AdmittedFields ==
  ASSUME NEW pc, NEW s, NEW k, NEW c, NEW x,
         x = [NoCall EXCEPT !.pc = pc, !.process = s, !.kind = k, !.chain = c]
  PROVE  x.pc = pc /\ x.process = s /\ IsRequest(x)
BY DEF NoCall, IsRequest

LEMMA IdleIsSound == ASSUME NEW f, NEW t PROVE RequestSound(f, t, NoCall)
BY IdleFields DEF RequestSound

(* The other requests are as sound as before when one changes.             *)
LEMMA OneRequest ==
  ASSUME GatewayIInv, CountersInv', now <= now', \A p \in Providers : failed[p] <= failed'[p],
         NEW r \in Calls, NEW x, RequestSound(failed', now', x),
         call' = [call EXCEPT ![r] = x]
  PROVE  RequestsInv'
<1>1. DOMAIN call' = Calls
  BY DEF GatewayIInv, RequestsInv
<1>2. ASSUME NEW q \in Calls PROVE RequestSound(failed', now', call'[q])
  <2>1. CASE q = r
    BY <2>1 DEF GatewayIInv, RequestsInv
  <2>2. CASE q # r
    <3>1. call'[q] = call[q] /\ RequestSound(failed, now, call[q])
      BY <2>2 DEF GatewayIInv, RequestsInv
    <3>2. ASSUME Head(call[q].chain) \in Providers, Sound(failed[Head(call[q].chain)], now, call[q].loaded)
          PROVE  Sound(failed'[Head(call[q].chain)], now', call[q].loaded)
      BY <3>2, SoundStays DEF GatewayIInv, CountersInv
    <3> QED BY <3>1, <3>2 DEF RequestSound
  <2> QED BY <2>1, <2>2
<1> QED BY <1>1, <1>2 DEF RequestsInv

(* The stores stay sound when nothing is written to them. *)
LEMMA StoresStay ==
  ASSUME GatewayIInv, CountersInv', now <= now', \A p \in Providers : failed[p] <= failed'[p],
         UNCHANGED <<stored, memory>>
  PROVE  StoresInv'
BY SoundStays DEF GatewayIInv, StoresInv, CountersInv

(* A step that only moves one request.                                     *)
LEMMA Moves ==
  ASSUME GatewayIInv, UNCHANGED <<now, stored, memory, failed>>, usage' \in Nat,
         NEW r \in Calls, NEW x, RequestSound(failed, now, x),
         call' = [call EXCEPT ![r] = x]
  PROVE  GatewayIInv'
<1>1. CountersInv' /\ now <= now' /\ \A p \in Providers : failed[p] <= failed'[p]
  BY DEF GatewayIInv, CountersInv
<1>2. StoresInv'
  BY <1>1, StoresStay
<1>3. RequestsInv'
  BY <1>1, OneRequest
<1> QED BY <1>1, <1>2, <1>3 DEF GatewayIInv

(* A step of no request that leaves the stores alone.                      *)
LEMMA Passes ==
  ASSUME GatewayIInv, UNCHANGED <<stored, memory, failed, call>>, usage' \in Nat,
         now' \in Nat, now <= now'
  PROVE  GatewayIInv'
<1>1. CountersInv' /\ \A p \in Providers : failed[p] <= failed'[p]
  BY DEF GatewayIInv, CountersInv
<1>2. StoresInv'
  BY <1>1, StoresStay
<1>3. ASSUME NEW q \in Calls PROVE RequestSound(failed', now', call'[q])
  <2>1. RequestSound(failed, now, call[q])
    BY DEF GatewayIInv, RequestsInv
  <2>2. ASSUME Head(call[q].chain) \in Providers, Sound(failed[Head(call[q].chain)], now, call[q].loaded)
        PROVE  Sound(failed[Head(call[q].chain)], now', call[q].loaded)
    BY <2>2, SoundStays DEF GatewayIInv, CountersInv
  <2> QED BY <2>1, <2>2 DEF RequestSound
<1> QED BY <1>1, <1>2, <1>3 DEF GatewayIInv, RequestsInv

(* A label at which nothing that was loaded counts *)
LEMMA MovedOn ==
  ASSUME NEW f, NEW t, NEW x, RequestSound(f, t, x), x.pc # "idle",
         NEW label \in {"reopening", "calling"}
  PROVE  RequestSound(f, t, [x EXCEPT !.pc = label])
BY DEF RequestSound, IsRequest

(* A request whose provider had its turn chooses again in its process.     *)
LEMMA Proceeded ==
  ASSUME NEW r \in Calls, IsRequest(call[r]), Proceed(r)
  PROVE  \E x : /\ call' = [call EXCEPT ![r] = x]
                /\ x.pc = "choosing" /\ x.process = call[r].process /\ IsRequest(x)
<1>1. PICK y : y = call[r]
  OBVIOUS
<1>2. PICK x : x = [y EXCEPT !.pc = "choosing", !.chain = Tail(@), !.loaded = NoData, !.outcome = "none"]
  OBVIOUS
<1>3. x.pc = "choosing" /\ x.process = y.process /\ IsRequest(x)
  BY <1>1, <1>2 DEF IsRequest
<1>4. call' = [call EXCEPT ![r] = x]
  BY <1>1, <1>2, Zenon DEF Proceed
<1> QED BY <1>1, <1>3, <1>4

(* An answered request stays in its process.                               *)
LEMMA Answered ==
  ASSUME NEW r \in Calls, Answer(r)
  PROVE  \E x : /\ call' = [call EXCEPT ![r] = x]
                /\ x.pc = "answered" /\ x.process = call[r].process /\ IsRequest(x)
<1>1. PICK s, c : s = call[r].process /\ c = <<Provider(r)>>
  OBVIOUS
<1>2. PICK x : x = [NoCall EXCEPT !.pc = "answered", !.process = s, !.chain = c]
  OBVIOUS
<1>3. x.pc = "answered" /\ x.process = s /\ IsRequest(x)
  BY <1>2 DEF NoCall, IsRequest
<1>4. call' = [call EXCEPT ![r] = x]
  BY <1>1, <1>2, Zenon DEF Answer
<1> QED BY <1>1, <1>3, <1>4

LEMMA ProceedsSound ==
  ASSUME GatewayIInv, NEW r \in Calls, call[r].pc # "idle", Proceed(r),
         UNCHANGED <<now, stored, memory, failed, usage>>
  PROVE  GatewayIInv'
<1>1. IsRequest(call[r]) /\ call[r].process \in Processes /\ usage' \in Nat
  BY DEF GatewayIInv, CountersInv, RequestsInv, RequestSound
<1>2. PICK x : /\ call' = [call EXCEPT ![r] = x]
               /\ x.pc = "choosing" /\ x.process = call[r].process /\ IsRequest(x)
  BY <1>1, Proceeded
<1>3. RequestSound(failed, now, x)
  BY <1>1, <1>2 DEF RequestSound
<1> QED BY <1>1, <1>2, <1>3, Moves

LEMMA AnswersSound ==
  ASSUME GatewayIInv, NEW r \in Calls, call[r].pc # "idle", Answer(r),
         UNCHANGED <<now, stored, memory, failed, usage>>
  PROVE  GatewayIInv'
<1>1. call[r].process \in Processes /\ usage' \in Nat
  BY DEF GatewayIInv, CountersInv, RequestsInv, RequestSound
<1>2. PICK x : /\ call' = [call EXCEPT ![r] = x]
               /\ x.pc = "answered" /\ x.process = call[r].process /\ IsRequest(x)
  BY Answered
<1>3. RequestSound(failed, now, x)
  BY <1>1, <1>2 DEF RequestSound
<1> QED BY <1>1, <1>2, <1>3, Moves

LEMMA EndsSound ==
  ASSUME GatewayIInv, NEW r \in Calls, Leave(r), UNCHANGED <<now, stored, memory, failed>>,
         usage' \in Nat
  PROVE  GatewayIInv'
BY IdleIsSound, Moves DEF Leave

-----------------------------------------------------------------------------
(* Saving and writing                                                      *)

(* A request saves sound data of its provider, in its process and for the  *)
(* write to Redis that follows.                                            *)
LEMMA SavesSound ==
  ASSUME GatewayIInv, NEW r \in Calls, call[r].pc # "idle", NEW d, SaveInMemory(r, d),
         UNCHANGED <<now, stored, usage>>, failed' \in [Providers -> Nat],
         \A p \in Providers : failed[p] <= failed'[p],
         Provider(r) \in Providers => Sound(failed'[Provider(r)], now, d)
  PROVE  GatewayIInv'
<1>1. CountersInv' /\ now <= now' /\ now \in Nat
  BY DEF GatewayIInv, CountersInv
<1>2. RequestSound(failed, now, call[r])
  BY DEF GatewayIInv, RequestsInv
<1>3. RequestsInv'
  <2>1. PICK y : y = call[r]
    OBVIOUS
  <2>2. PICK x : x = [y EXCEPT !.pc = "writing", !.loaded = d]
    OBVIOUS
  <2>3. /\ IsRequest(x) /\ x.pc = "writing" /\ x.process = y.process
        /\ x.chain = y.chain /\ x.loaded = d
    BY <1>2, <2>1, <2>2 DEF RequestSound, IsRequest
  <2>4. call' = [call EXCEPT ![r] = x]
    BY <2>1, <2>2, Zenon DEF SaveInMemory
  <2>5. RequestSound(failed', now', x)
    BY <1>2, <2>1, <2>3 DEF RequestSound, Provider
  <2> QED BY <1>1, <2>4, <2>5, OneRequest
<1>4. StoresInv'
  <2>1. ASSUME NEW p \in Providers, stored'[p] # NoProvider
        PROVE  Sound(failed'[p], now', stored'[p])
    BY <1>1, <2>1, SoundStays DEF GatewayIInv, StoresInv, CountersInv
  <2>2. ASSUME NEW s \in Processes, NEW p \in Providers
        PROVE  Sound(failed'[p], now', memory'[s][p])
    <3>1. memory'[s][p] = memory[s][p] \/ (p = Provider(r) /\ memory'[s][p] = d)
      BY DEF SaveInMemory, GatewayIInv, StoresInv
    <3>2. Sound(failed[p], now, memory[s][p])
      BY DEF GatewayIInv, StoresInv
    <3>3. Sound(failed'[p], now', memory[s][p])
      BY <1>1, <3>2, SoundStays DEF GatewayIInv, CountersInv
    <3> QED BY <3>1, <3>3
  <2>3. DOMAIN stored' = Providers /\ DOMAIN memory' = Processes
        /\ \A s \in Processes : DOMAIN memory'[s] = Providers
    BY DEF SaveInMemory, GatewayIInv, StoresInv
  <2> QED BY <2>1, <2>2, <2>3 DEF StoresInv
<1> QED BY <1>1, <1>3, <1>4 DEF GatewayIInv

(* Redis receives what its writer has loaded, and the writer moves on.     *)
LEMMA WritesSound ==
  ASSUME GatewayIInv, NEW r \in Calls, WriteRedis(r)
  PROVE  GatewayIInv'
<1>1. /\ call[r].pc = "writing" /\ call[r].pc # "idle"
      /\ RequestSound(failed, now, call[r])
      /\ UNCHANGED <<now, memory, failed, usage>>
  BY DEF WriteRedis, At, GatewayIInv, RequestsInv
<1>2. ASSUME NEW p \in Providers, stored'[p] # NoProvider
      PROVE  Sound(failed'[p], now', stored'[p])
  <2>1. stored'[p] = stored[p] \/ (p = Provider(r) /\ stored'[p] = call[r].loaded)
    BY DEF WriteRedis, GatewayIInv, StoresInv
  <2> QED BY <1>1, <1>2, <2>1 DEF RequestSound, Provider, GatewayIInv, StoresInv
<1>3. CountersInv' /\ StoresInv'
  <2>1. DOMAIN stored' = Providers
    BY DEF WriteRedis, GatewayIInv, StoresInv
  <2> QED BY <1>1, <1>2, <2>1 DEF GatewayIInv, CountersInv, StoresInv
<1>4. RequestsInv'
  <2>0. ASSUME NEW x, RequestSound(failed, now, x), call' = [call EXCEPT ![r] = x]
        PROVE  RequestsInv'
    <3>1. now <= now' /\ \A p \in Providers : failed[p] <= failed'[p]
      BY <1>1 DEF GatewayIInv, CountersInv
    <3>2. RequestSound(failed', now', x)
      BY <1>1, <2>0
    <3> QED BY <1>3, <2>0, <3>1, <3>2, OneRequest
  <2>1. ASSUME NEW x, IsRequest(x), x.process = call[r].process, x.pc \in {"calling", "answered", "choosing"},
               call' = [call EXCEPT ![r] = x]
        PROVE  RequestsInv'
    <3>1. RequestSound(failed, now, x)
      BY <1>1, <2>1 DEF RequestSound
    <3> QED BY <2>0, <2>1, <3>1
  <2>2. CASE call' = [call EXCEPT ![r].pc = "calling", ![r].loaded = NoData]
    <3>1. PICK y : y = call[r]
      OBVIOUS
    <3>2. PICK x : x = [y EXCEPT !.pc = "calling", !.loaded = NoData]
      OBVIOUS
    <3>3. x.pc = "calling" /\ x.process = y.process /\ IsRequest(x)
      BY <1>1, <3>1, <3>2 DEF RequestSound, IsRequest
    <3>4. call' = [call EXCEPT ![r] = x]
      BY <2>2, <3>1, <3>2, Zenon
    <3> QED BY <2>1, <3>1, <3>3, <3>4
  <2>3. CASE Answer(r)
    BY <2>1, <2>3, Answered
  <2>4. CASE Proceed(r)
    BY <1>1, <2>1, <2>4, Proceeded DEF RequestSound
  <2>5. CASE Leave(r)
    BY <2>0, <2>5, IdleIsSound DEF Leave
  <2> QED BY <2>2, <2>3, <2>4, <2>5 DEF WriteRedis
<1> QED BY <1>3, <1>4 DEF GatewayIInv

-----------------------------------------------------------------------------
(* The invariant                                                           *)

LEMMA Initially == GatewayInit => GatewayIInv
<1> SUFFICES ASSUME GatewayInit PROVE GatewayIInv
  OBVIOUS
<1>1. CountersInv
  BY DEF GatewayInit, CountersInv
<1>2. StoresInv
  BY NoDataSound, <1>1 DEF GatewayInit, StoresInv, CountersInv
<1>3. RequestsInv
  BY IdleIsSound DEF GatewayInit, RequestsInv
<1> QED BY <1>1, <1>2, <1>3 DEF GatewayIInv

LEMMA EntersSound ==
  ASSUME GatewayIInv, NEW r \in Calls, NEW s \in Processes, NEW k, NEW named, Enter(r, s, k, named)
  PROVE  GatewayIInv'
<1>1. PICK c : c = IF named = NoProvider THEN PolicyChain ELSE <<named>>
  OBVIOUS
<1>2. PICK x : x = [NoCall EXCEPT !.pc = "choosing", !.process = s, !.kind = k, !.chain = c]
  OBVIOUS
<1>3. x.pc = "choosing" /\ x.process = s /\ IsRequest(x)
  BY <1>2 DEF NoCall, IsRequest
<1>4. RequestSound(failed, now, x)
  BY <1>3 DEF RequestSound
<1>5. call' = [call EXCEPT ![r] = x]
  BY <1>1, <1>2, Zenon DEF Enter
<1>6. UNCHANGED <<now, stored, memory, failed>> /\ usage' \in Nat
  BY DEF Enter, breakerVars, GatewayIInv, CountersInv
<1> QED BY <1>4, <1>5, <1>6, Moves

LEMMA GoesSound ==
  ASSUME GatewayIInv, NEW r \in Calls, call[r].pc # "idle", NEW label \in {"reopening", "calling"},
         Goto(r, label), UNCHANGED <<now, stored, memory, failed, usage>>
  PROVE  GatewayIInv'
<1>1. PICK x : x = [call[r] EXCEPT !.pc = label]
  OBVIOUS
<1>2. RequestSound(failed, now, x)
  BY <1>1, MovedOn DEF GatewayIInv, RequestsInv
<1>3. call' = [call EXCEPT ![r] = x] /\ usage' \in Nat
  BY <1>1 DEF Goto, GatewayIInv, CountersInv
<1> QED BY <1>2, <1>3, Moves

(* What a request loads for a provider is sound for it.                    *)
LEMMA LoadsSound ==
  ASSUME GatewayIInv, NEW r \in Calls, call[r].pc # "idle", NEW label, NEW o,
         UNCHANGED <<now, stored, memory, failed, usage>>,
         \/ call' = [call EXCEPT ![r].pc = label, ![r].loaded = Load(r, Provider(r))]
         \/ call' = [call EXCEPT ![r].pc = label, ![r].outcome = o, ![r].loaded = Load(r, Provider(r))]
  PROVE  GatewayIInv'
<1>1. PICK y : y = call[r]
  OBVIOUS
<1>2. PICK d : d = Load(r, Provider(r))
  OBVIOUS
<1>3. PICK x : /\ \/ x = [y EXCEPT !.pc = label, !.loaded = d]
                  \/ x = [y EXCEPT !.pc = label, !.outcome = o, !.loaded = d]
               /\ call' = [call EXCEPT ![r] = x]
  <2>1. CASE call' = [call EXCEPT ![r].pc = label, ![r].loaded = Load(r, Provider(r))]
    <3>1. call' = [call EXCEPT ![r] = [y EXCEPT !.pc = label, !.loaded = d]]
      BY <1>1, <1>2, <2>1, Zenon
    <3> QED BY <3>1, Zenon
  <2>2. CASE call' = [call EXCEPT ![r].pc = label, ![r].outcome = o, ![r].loaded = Load(r, Provider(r))]
    <3>1. call' = [call EXCEPT ![r] = [y EXCEPT !.pc = label, !.outcome = o, !.loaded = d]]
      BY <1>1, <1>2, <2>2, Zenon
    <3> QED BY <3>1, Zenon
  <2> QED BY <2>1, <2>2
<1>4. RequestSound(failed, now, y)
  BY <1>1 DEF GatewayIInv, RequestsInv
<1>5. IsRequest(x) /\ x.process = y.process /\ x.chain = y.chain /\ x.loaded = d
  BY <1>3, <1>4 DEF IsRequest, RequestSound
<1>6. Head(y.chain) \in Providers => Sound(failed[Head(y.chain)], now, d)
  BY <1>1, <1>2, LoadIsSound DEF Provider
<1>7. RequestSound(failed, now, x)
  BY <1>1, <1>4, <1>5, <1>6 DEF RequestSound
<1>8. usage' \in Nat
  BY DEF GatewayIInv, CountersInv
<1> QED BY <1>3, <1>7, <1>8, Moves

-----------------------------------------------------------------------------
LEMMA GatewayRequestStep ==
  ASSUME GatewayIInv, NEW r \in Calls, RequestNext(r)
  PROVE  GatewayIInv'
<1> USE DEF At, breakerVars
<1>1. CASE ReadState(r)
  <2>1. /\ call[r].pc # "idle" /\ UNCHANGED <<now, stored, memory, failed, usage>>
        /\ Goto(r, "reopening") \/ Goto(r, "calling")
    BY <1>1 DEF ReadState
  <2> QED BY <2>1, GoesSound
<1>2. CASE ReadData(r)
  <2>1. /\ call[r].pc # "idle" /\ UNCHANGED <<now, stored, memory, failed, usage>>
        /\ \/ call' = [call EXCEPT ![r].pc = "probing", ![r].loaded = Load(r, Provider(r))]
           \/ Proceed(r)
    BY <1>2 DEF ReadData
  <2> QED BY <2>1, LoadsSound, ProceedsSound
<1>3. CASE HalfOpen(r)
  <2>1. /\ call[r].pc = "probing" /\ UNCHANGED <<now, stored, failed, usage>>
        /\ SaveInMemory(r, [call[r].loaded EXCEPT !.state = "half_open"])
    BY <1>3 DEF HalfOpen
  <2>2. Provider(r) \in Providers => Sound(failed[Provider(r)], now, [call[r].loaded EXCEPT !.state = "half_open"])
    BY <2>1, HalfOpenIsSound DEF GatewayIInv, CountersInv, RequestsInv, RequestSound, Provider
  <2>3. failed' \in [Providers -> Nat] /\ failed' = failed /\ \A p \in Providers : failed[p] <= failed'[p]
    BY <2>1 DEF GatewayIInv, CountersInv
  <2> QED BY <2>1, <2>2, <2>3, SavesSound
<1>4. CASE Exhausted(r)
  BY <1>4, EndsSound DEF Exhausted, GatewayIInv, CountersInv
<1>5. CASE Unconfigured(r)
  BY <1>5, EndsSound DEF Unconfigured, GatewayIInv, CountersInv
<1>6. ASSUME NEW o, Call(r, o) PROVE GatewayIInv'
  <2>1. /\ call[r].pc # "idle" /\ UNCHANGED <<now, stored, memory, failed, usage>>
        /\ call' = [call EXCEPT ![r].pc = "saving", ![r].outcome = o, ![r].loaded = Load(r, Provider(r))]
    BY <1>6 DEF Call
  <2> QED BY <2>1, LoadsSound
<1>7. CASE OpenStream(r)
  BY <1>7, AnswersSound DEF OpenStream
<1>8. CASE RecordSuccess(r)
  <2>1. /\ call[r].pc = "saving" /\ UNCHANGED <<now, stored, failed, usage>>
        /\ SaveInMemory(r, AfterSuccess(call[r].loaded))
    BY <1>8 DEF RecordSuccess
  <2>2. Provider(r) \in Providers => Sound(failed[Provider(r)], now, AfterSuccess(call[r].loaded))
    BY <2>1, SuccessIsSound DEF GatewayIInv, CountersInv, RequestsInv, RequestSound, Provider
  <2>3. failed' \in [Providers -> Nat] /\ failed' = failed /\ \A p \in Providers : failed[p] <= failed'[p]
    BY <2>1 DEF GatewayIInv, CountersInv
  <2> QED BY <2>1, <2>2, <2>3, SavesSound
<1>9. CASE RecordFailure(r)
  <2>1. /\ call[r].pc = "saving" /\ UNCHANGED <<now, stored, usage>>
        /\ SaveInMemory(r, AfterFailure(call[r].loaded))
        /\ failed' = [failed EXCEPT ![Provider(r)] = @ + 1]
    BY <1>9 DEF RecordFailure
  <2>2. Provider(r) \in Providers => Sound(failed[Provider(r)] + 1, now, AfterFailure(call[r].loaded))
    BY <2>1, FailureIsSound DEF GatewayIInv, CountersInv, RequestsInv, RequestSound, Provider
  <2>3. failed' \in [Providers -> Nat] /\ \A p \in Providers : failed[p] <= failed'[p]
    <3>1. ASSUME NEW p \in Providers
          PROVE  failed[p] \in Nat /\ (failed'[p] = failed[p] \/ failed'[p] = failed[p] + 1)
      BY <2>1 DEF GatewayIInv, CountersInv
    <3>2. ASSUME NEW p \in Providers PROVE failed'[p] \in Nat /\ failed[p] <= failed'[p]
      BY <3>1
    <3>3. DOMAIN failed' = Providers /\ failed' = [p \in Providers |-> failed'[p]]
      BY <2>1 DEF GatewayIInv, CountersInv
    <3> QED BY <3>2, <3>3
  <2>4. Provider(r) \in Providers => failed'[Provider(r)] = failed[Provider(r)] + 1
    BY <2>1 DEF GatewayIInv, CountersInv
  <2> QED BY <2>1, <2>2, <2>3, <2>4, SavesSound
<1>10. CASE WriteRedis(r)
  BY <1>10, WritesSound
<1>11. CASE CommitUsage(r)
  BY <1>11, EndsSound DEF CommitUsage, GatewayIInv, CountersInv
<1>12. CASE Abort(r)
  BY <1>12, EndsSound DEF Abort, GatewayIInv, CountersInv
<1> QED BY <1>1, <1>2, <1>3, <1>4, <1>5, <1>6, <1>7, <1>8, <1>9, <1>10, <1>11, <1>12 DEF RequestNext

LEMMA GatewayInvariance == GatewayIInv /\ [GatewayNext]_gatewayVars => GatewayIInv'
<1> SUFFICES ASSUME GatewayIInv, [GatewayNext]_gatewayVars PROVE GatewayIInv'
  OBVIOUS
<1> USE DEF breakerVars
<1>1. ASSUME NEW r \in Calls, NEW s \in Processes, NEW k, NEW named, Enter(r, s, k, named)
      PROVE  GatewayIInv'
  BY <1>1, EntersSound
<1>2. ASSUME NEW r \in Calls, RequestNext(r) PROVE GatewayIInv'
  BY <1>2, GatewayRequestStep
<1>3. CASE Tick
  BY <1>3, Passes DEF Tick, GatewayIInv, CountersInv
<1>4. CASE NextDay
  BY <1>4, Passes DEF NextDay, GatewayIInv, CountersInv
<1>5. CASE RedisFails
  BY <1>5, Passes DEF RedisFails, GatewayIInv, CountersInv
<1>6. CASE RedisReturns
  BY <1>6, Passes DEF RedisReturns, GatewayIInv, CountersInv
<1>7. ASSUME NEW p \in Providers, RedisForgets(p) PROVE GatewayIInv'
  BY <1>7 DEF RedisForgets, GatewayIInv, CountersInv, StoresInv, RequestsInv
<1>8. ASSUME NEW s \in Processes, Restart(s) PROVE GatewayIInv'
  <2>1. CountersInv' /\ UNCHANGED <<now, stored, failed>>
    BY <1>8 DEF Restart, GatewayIInv, CountersInv
  <2>2. StoresInv'
    BY <1>8, <2>1, NoDataSound DEF Restart, GatewayIInv, CountersInv, StoresInv
  <2>3. RequestsInv'
    BY <1>8, <2>1, IdleIsSound DEF Restart, GatewayIInv, RequestsInv
  <2> QED BY <2>1, <2>2, <2>3 DEF GatewayIInv
<1>9. CASE UNCHANGED gatewayVars
  BY <1>9, Passes DEF gatewayVars, GatewayIInv, CountersInv
<1> QED BY <1>1, <1>2, <1>3, <1>4, <1>5, <1>6, <1>7, <1>8, <1>9 DEF GatewayNext

LEMMA GatewayInductive == GatewaySpec => []GatewayIInv
BY Initially, GatewayInvariance, PTL DEF GatewaySpec

(* A circuit opens only after Threshold recorded failures of its provider, *)
(* whatever saves overtook each other in Redis and in the processes.       *)
THEOREM OpensForFailures == GatewaySpec => []OpenedByFailures
<1>1. GatewayIInv => OpenedByFailures
  BY GatewayAssumption DEF GatewayIInv, CountersInv, StoresInv, Sound, Data, OpenedByFailures, Copies
<1> QED BY <1>1, GatewayInductive, PTL

(* An open circuit has a time from which it recovers, and a closed one is  *)
(* below the threshold: record_failure and is_open never lose the time.    *)
THEOREM OpenCircuitsRecover == GatewaySpec => []OpenCanRecover
<1>1. GatewayIInv => OpenCanRecover
  BY DEF GatewayIInv, StoresInv, Sound, OpenCanRecover, Copies
<1> QED BY <1>1, GatewayInductive, PTL

-----------------------------------------------------------------------------
(* The chain of a request, which PolicyChain computes in a loop over the   *)
(* policy: induction on numbers, as a fact about sets                      *)
LEMMA LeastElement ==
  ASSUME NEW T \in SUBSET Nat, T # {}
  PROVE  \E n \in T : \A m \in T : n <= m
<1>1. PICK R : R = OpToRel(<, Nat)
  OBVIOUS
<1>2. IsWellFoundedOn(R, Nat)
  BY <1>1, NatLessThanWellFounded
<1>3. PICK n \in T : \A m \in T : <<m, n>> \notin R
  BY <1>2, WFMin
<1>4. \A m, k \in Nat : m < k => <<m, k>> \in R
  BY <1>1 DEF OpToRel
<1>5. ASSUME NEW m \in T, ~(n <= m) PROVE FALSE
  <2>1. m \in Nat /\ n \in Nat /\ m < n
    BY <1>5
  <2> QED BY <1>3, <1>4, <2>1
<1> QED BY <1>5

LEMMA NumberInduction ==
  ASSUME NEW S, 0 \in S, \A n \in Nat : n \in S => n + 1 \in S
  PROVE  Nat \subseteq S
<1> SUFFICES ASSUME Nat \ S # {} PROVE FALSE
  OBVIOUS
<1>1. PICK n \in Nat \ S : \A m \in Nat \ S : n <= m
  BY LeastElement
<1>2. n # 0 /\ n - 1 \in Nat /\ n - 1 \notin Nat \ S
  BY <1>1
<1> QED BY <1>1, <1>2

(* A loop of N rounds has a value after each of them. *)
LEMMA LoopHasValues ==
  ASSUME NEW X, NEW start \in X, NEW N \in Nat, NEW step \in [1..N -> [X -> X]]
  PROVE  \E f \in [0..N -> X] : /\ f[0] = start
                                 /\ \A n \in 1..N : f[n] = step[n][f[n - 1]]
<1> DEFINE After(k, f) == /\ f \in [0..k -> X]
                          /\ f[0] = start
                          /\ \A n \in 1..k : f[n] = step[n][f[n - 1]]
           S == {k \in Nat : k <= N => \E f : After(k, f)}
<1>1. 0 \in S
  <2> DEFINE f == [n \in 0..0 |-> start]
  <2>1. After(0, f)
    OBVIOUS
  <2> QED BY <2>1
<1>2. ASSUME NEW k \in Nat, k \in S PROVE k + 1 \in S
  <2> SUFFICES ASSUME k + 1 <= N PROVE \E g : After(k + 1, g)
    OBVIOUS
  <2>1. PICK f : After(k, f)
    BY <1>2
  <2> DEFINE g == [n \in 0..(k + 1) |-> IF n = k + 1 THEN step[k + 1][f[k]] ELSE f[n]]
  <2>2. f[k] \in X /\ step[k + 1][f[k]] \in X
    BY <2>1
  <2>3. g \in [0..(k + 1) -> X] /\ g[0] = start
    BY <2>1, <2>2
  <2>4. ASSUME NEW n \in 1..(k + 1)
        PROVE  g[n] = step[n][g[n - 1]]
    <3>1. CASE n = k + 1
      <4>1. g[n] = step[k + 1][f[k]] /\ g[n - 1] = f[k]
        BY <3>1
      <4> QED BY <3>1, <4>1
    <3>2. CASE n # k + 1
      <4>1. n \in 1..k /\ g[n] = f[n] /\ n - 1 \in 0..k /\ g[n - 1] = f[n - 1]
        BY <3>2
      <4> QED BY <2>1, <4>1
    <3> QED BY <3>1, <3>2
  <2> QED BY <2>3, <2>4
<1>3. Nat \subseteq S
  <2> HIDE DEF S
  <2> QED BY <1>1, <1>2, NumberInduction
<1>4. PICK f : After(N, f)
  BY <1>3
<1> QED BY <1>4

(* Providers in an order, each once *)
Once(c) == \A i, j \in 1..Len(c) : c[i] = c[j] => i = j
Chains == {c \in Seq(Providers) : Once(c)}

Usable(p) == config.organization[p] # "disabled" /\ config.platform[p] # "disabled"
Extended(c, p) == IF Usable(p) /\ p \notin ToSet(c) THEN Append(c, p) ELSE c

Resolved ==
  CHOOSE resolved : resolved =
    [n \in 0..Len(config.policy) |->
       IF n = 0 THEN <<>>
       ELSE LET p == config.policy[n]
            IN IF Usable(p) /\ p \notin ToSet(resolved[n - 1])
               THEN Append(resolved[n - 1], p) ELSE resolved[n - 1]]

LEMMA ExtendedOnce ==
  ASSUME NEW c \in Chains, NEW p \in Providers
  PROVE  Extended(c, p) \in Chains
<1>1. CASE p \in ToSet(c)
  BY <1>1 DEF Extended
<1>2. CASE p \notin ToSet(c)
  <2> DEFINE d == Append(c, p)
  <2>1. /\ c \in Seq(Providers) /\ Once(c) /\ Len(c) \in Nat
        /\ d \in Seq(Providers) /\ Len(d) = Len(c) + 1 /\ d[Len(c) + 1] = p
        /\ \A i \in 1..Len(c) : d[i] = c[i]
    BY AppendProperties DEF Chains
  <2>2. \A i \in 1..Len(c) : c[i] # p
    BY <1>2, <2>1 DEF ToSet
  <2> HIDE DEF d
  <2>3. ASSUME NEW i \in 1..Len(d), NEW j \in 1..Len(d), d[i] = d[j] PROVE i = j
    <3>1. i \in 1..Len(c) \/ i = Len(c) + 1
      BY <2>1
    <3>2. j \in 1..Len(c) \/ j = Len(c) + 1
      BY <2>1
    <3> QED BY <2>1, <2>2, <2>3, <3>1, <3>2 DEF Once
  <2>4. d \in Chains
    BY <2>1, <2>3 DEF Chains, Once
  <2> QED BY <2>4 DEF Extended, d
<1> QED BY <1>1, <1>2

(* The chain of the policy, or the default one: never empty, and no        *)
(* provider is tried twice.                                                *)
LEMMA ChainOfPolicy ==
  ASSUME config \in Configs
  PROVE  PolicyChain \in Chains /\ PolicyChain # <<>>
<1> DEFINE policy == config.policy
           N == Len(policy)
           step == [n \in 1..N |-> [c \in Chains |-> Extended(c, policy[n])]]
           loop == Resolved
<1>1. policy \in Seq(Providers) /\ N \in Nat /\ \A n \in 1..N : policy[n] \in Providers
  <2>1. policy \in Seq(Providers)
    BY GatewayAssumption DEF ConfigRecords
  <2> HIDE DEF policy
  <2> QED BY <2>1, ElementOfSeq, LenProperties
<1>2. <<>> \in Chains
  BY EmptySeq DEF Chains, Once
<1>3. \A c \in Chains, n \in 1..N : Extended(c, policy[n]) \in Chains
  <2> HIDE DEF policy, N
  <2> QED BY <1>1, ExtendedOnce
<1>4. PICK g \in [0..N -> Chains] : g[0] = <<>> /\ \A n \in 1..N : g[n] = step[n][g[n - 1]]
  <2> DEFINE start == <<>>
  <2>1. step \in [1..N -> [Chains -> Chains]]
    BY <1>3
  <2>2. N \in Nat /\ start \in Chains
    BY <1>1, <1>2
  <2> HIDE DEF N, start, step
  <2>3. \E g \in [0..N -> Chains] : g[0] = start /\ \A n \in 1..N : g[n] = step[n][g[n - 1]]
    BY <2>1, <2>2, LoopHasValues
  <2> QED BY <2>3 DEF start
<1>5. g = [n \in 0..N |-> IF n = 0 THEN <<>> ELSE Extended(g[n - 1], policy[n])]
  <2> HIDE DEF loop, N, policy
  <2>1. ASSUME NEW n \in 1..N PROVE g[n] = Extended(g[n - 1], policy[n])
    <3>1. n - 1 \in 0..N /\ g[n - 1] \in Chains
      BY <1>1, <1>4
    <3>2. g[n] = step[n][g[n - 1]]
      BY <1>4
    <3>3. \A c \in Chains : step[n][c] = Extended(c, policy[n])
      BY Zenon
    <3> HIDE DEF step
    <3> QED BY <3>1, <3>2, <3>3
  <2> HIDE DEF step
  <2> QED BY <1>1, <1>4, <2>1
<1>6. loop = [n \in 0..N |-> IF n = 0 THEN <<>> ELSE Extended(loop[n - 1], policy[n])]
  BY <1>5, Zenon DEF Resolved, Extended
<1>7. \A n \in 0..N : loop[n] = IF n = 0 THEN <<>> ELSE Extended(loop[n - 1], policy[n])
  <2> HIDE DEF loop, N, policy
  <2> QED BY <1>6
<1>8. \A n \in 0..N : loop[n] \in Chains
  <2> DEFINE S == {n \in Nat : n \in 0..N => loop[n] \in Chains}
  <2> HIDE DEF loop
  <2>1. 0 \in S
    BY <1>1, <1>2, <1>7
  <2>2. ASSUME NEW n \in Nat, n \in S PROVE n + 1 \in S
    <3> SUFFICES ASSUME n + 1 \in 0..N PROVE loop[n + 1] \in Chains
      OBVIOUS
    <3> HIDE DEF policy, N
    <3>1. loop[n] \in Chains /\ n + 1 \in 1..N
      BY <1>1, <2>2
    <3>2. loop[n + 1] = Extended(loop[n], policy[n + 1])
      BY <1>7
    <3> QED BY <1>3, <3>1, <3>2
  <2>3. Nat \subseteq S
    <3> HIDE DEF S
    <3> QED BY <2>1, <2>2, NumberInduction
  <2> QED BY <1>1, <2>3
<1>9. loop[N] \in Chains
  BY <1>1, <1>8
<1>10. PolicyChain = IF loop[N] = <<>> THEN <<Default>> ELSE loop[N]
  BY Zenon DEF PolicyChain, Resolved, Usable
<1>11. <<Default>> \in Chains /\ <<Default>> # <<>>
  BY GatewayAssumption DEF Chains, Once
<1> HIDE DEF loop, N
<1> QED BY <1>9, <1>10, <1>11

(* The type of the gateway, with what a request has left of its chain: it  *)
(* has a provider wherever the code takes the first one.                   *)
ChainSound(x) ==
  /\ x.chain \in Chains
  /\ x.pc \in {"reopening", "probing", "calling", "saving", "writing", "answered"} => x.chain # <<>>

GatewayTyped == GatewayTypeOK /\ \A r \in Calls : ChainSound(call[r])

LEMMA NoCallShape ==
  NoData \in Data /\ NoCall \in RequestRecords /\ ChainSound(NoCall)
<1>1. <<>> \in Seq(Providers) /\ <<>> \in Chains
  BY EmptySeq DEF Chains, Once
<1> QED BY <1>1 DEF NoData, Data, NoCall, RequestRecords, ChainSound

LEMMA FirstAndRest ==
  ASSUME NEW c \in Chains, c # <<>>
  PROVE  /\ Head(c) \in Providers /\ Tail(c) \in Chains /\ Head(c) \notin ToSet(Tail(c))
         /\ <<Head(c)>> \in Chains /\ <<Head(c)>> # <<>>
<1>1. /\ c \in Seq(Providers) /\ Once(c) /\ Len(c) \in Nat /\ Len(c) >= 1
      /\ Head(c) = c[1] /\ Head(c) \in Providers
      /\ Tail(c) \in Seq(Providers) /\ Len(Tail(c)) = Len(c) - 1
      /\ \A i \in 1..(Len(c) - 1) : Tail(c)[i] = c[i + 1]
  BY HeadTailProperties, LenProperties, EmptySeq DEF Chains
<1>2. Once(Tail(c))
  <2> SUFFICES ASSUME NEW i \in 1..(Len(c) - 1), NEW j \in 1..(Len(c) - 1), c[i + 1] = c[j + 1]
               PROVE  i = j
    BY <1>1 DEF Once
  <2>1. i + 1 \in 1..Len(c) /\ j + 1 \in 1..Len(c)
    BY <1>1
  <2> QED BY <1>1, <2>1 DEF Once
<1>3. Head(c) \notin ToSet(Tail(c))
  <2> SUFFICES ASSUME NEW i \in 1..(Len(c) - 1), c[i + 1] = c[1] PROVE FALSE
    BY <1>1 DEF ToSet
  <2>1. i + 1 \in 1..Len(c) /\ 1 \in 1..Len(c)
    BY <1>1
  <2> QED BY <1>1, <2>1 DEF Once
<1>4. <<Head(c)>> \in Chains /\ <<Head(c)>> # <<>>
  <2> DEFINE p == Head(c)
  <2>1. p \in Providers
    BY <1>1
  <2> HIDE DEF p
  <2>2. <<p>> \in Seq(Providers) /\ Len(<<p>>) = 1 /\ <<p>> # <<>>
    BY <2>1
  <2>3. <<p>> \in Chains
    BY <2>2 DEF Chains, Once
  <2> QED BY <2>2, <2>3 DEF p
<1> QED BY <1>1, <1>2, <1>3, <1>4 DEF Chains

LEMMA OneCall ==
  ASSUME GatewayTyped, NEW r \in Calls, NEW x \in RequestRecords, ChainSound(x),
         call' = [call EXCEPT ![r] = x]
  PROVE  call' \in [Calls -> RequestRecords] /\ \A q \in Calls : ChainSound(call'[q])
<1>1. call \in [Calls -> RequestRecords] /\ \A q \in Calls : ChainSound(call[q])
  BY DEF GatewayTyped, GatewayTypeOK
<1>2. \A q \in Calls : call'[q] = IF q = r THEN x ELSE call[q]
  BY <1>1
<1> QED BY <1>1, <1>2

LEMMA LoadType ==
  ASSUME GatewayTyped, NEW r \in Calls, call[r].process \in Processes, NEW p \in Providers
  PROVE  Load(r, p) \in Data
BY DEF GatewayTyped, GatewayTypeOK, Load

LEMMA EntersTyped ==
  ASSUME GatewayTyped, NEW r \in Calls, NEW s \in Processes, NEW k \in {"answer", "stream"},
         NEW named \in config.named \cup {NoProvider}, Enter(r, s, k, named)
  PROVE  GatewayTyped'
<1> DEFINE c == IF named = NoProvider THEN PolicyChain ELSE <<named>>
           x == [NoCall EXCEPT !.pc = "choosing", !.process = s, !.kind = k, !.chain = c]
<1>1. c \in Chains /\ c \in Seq(Providers)
  <2>1. config \in Configs /\ config.named \subseteq Providers
    BY GatewayAssumption DEF GatewayTyped, GatewayTypeOK, ConfigRecords
  <2>2. CASE named = NoProvider
    BY <2>1, <2>2, ChainOfPolicy DEF Chains
  <2>3. CASE named # NoProvider
    <3>1. named \in Providers
      BY <2>1, <2>3
    <3>2. <<named>> \in Seq(Providers) /\ Len(<<named>>) = 1
      BY <3>1
    <3> QED BY <2>3, <3>2 DEF Chains, Once
  <2> QED BY <2>2, <2>3
<1>2. call' = [call EXCEPT ![r] = x]
  BY DEF Enter
<1> HIDE DEF c
<1>3. x \in RequestRecords /\ ChainSound(x)
  BY <1>1, NoCallShape DEF NoCall, RequestRecords, ChainSound
<1> HIDE DEF x
<1>4. call' \in [Calls -> RequestRecords] /\ \A q \in Calls : ChainSound(call'[q])
  BY <1>2, <1>3, OneCall
<1> QED BY <1>4 DEF GatewayTyped, GatewayTypeOK, Enter, breakerVars

(* What a request can do with its record *)
LEMMA RecordsTyped ==
  ASSUME NEW x \in RequestRecords, ChainSound(x)
  PROVE  /\ \A d \in Data, l \in {"choosing", "reopening", "probing", "calling", "saving", "writing"} :
              x.chain # <<>> =>
                /\ [x EXCEPT !.pc = l] \in RequestRecords
                /\ ChainSound([x EXCEPT !.pc = l])
                /\ [x EXCEPT !.pc = l, !.loaded = d] \in RequestRecords
                /\ ChainSound([x EXCEPT !.pc = l, !.loaded = d])
         /\ \A d \in Data, o \in {"success", "transient", "permanent"} :
              x.chain # <<>> =>
                /\ [x EXCEPT !.pc = "saving", !.outcome = o, !.loaded = d] \in RequestRecords
                /\ ChainSound([x EXCEPT !.pc = "saving", !.outcome = o, !.loaded = d])
         /\ x.chain # <<>> =>
              /\ [x EXCEPT !.pc = "choosing", !.chain = Tail(@), !.loaded = NoData, !.outcome = "none"]
                   \in RequestRecords
              /\ ChainSound([x EXCEPT !.pc = "choosing", !.chain = Tail(@),
                                      !.loaded = NoData, !.outcome = "none"])
              /\ [NoCall EXCEPT !.pc = "answered", !.process = x.process, !.chain = <<Head(x.chain)>>]
                   \in RequestRecords
              /\ ChainSound([NoCall EXCEPT !.pc = "answered", !.process = x.process,
                                           !.chain = <<Head(x.chain)>>])
<1>1. ASSUME NEW d \in Data, NEW l \in {"choosing", "reopening", "probing", "calling", "saving", "writing"},
             x.chain # <<>>
      PROVE  /\ [x EXCEPT !.pc = l] \in RequestRecords
             /\ ChainSound([x EXCEPT !.pc = l])
             /\ [x EXCEPT !.pc = l, !.loaded = d] \in RequestRecords
             /\ ChainSound([x EXCEPT !.pc = l, !.loaded = d])
  BY <1>1 DEF RequestRecords, ChainSound
<1>2. ASSUME NEW d \in Data, NEW o \in {"success", "transient", "permanent"}, x.chain # <<>>
      PROVE  /\ [x EXCEPT !.pc = "saving", !.outcome = o, !.loaded = d] \in RequestRecords
             /\ ChainSound([x EXCEPT !.pc = "saving", !.outcome = o, !.loaded = d])
  BY <1>2 DEF RequestRecords, ChainSound
<1>3. ASSUME x.chain # <<>>
      PROVE  /\ [x EXCEPT !.pc = "choosing", !.chain = Tail(@), !.loaded = NoData, !.outcome = "none"]
                  \in RequestRecords
             /\ ChainSound([x EXCEPT !.pc = "choosing", !.chain = Tail(@),
                                     !.loaded = NoData, !.outcome = "none"])
  <2> DEFINE t == Tail(x.chain)
  <2>1. t \in Chains /\ t \in Seq(Providers)
    BY <1>3, FirstAndRest DEF ChainSound, Chains
  <2> HIDE DEF t
  <2>2. /\ [x EXCEPT !.pc = "choosing", !.chain = t, !.loaded = NoData, !.outcome = "none"] \in RequestRecords
        /\ ChainSound([x EXCEPT !.pc = "choosing", !.chain = t, !.loaded = NoData, !.outcome = "none"])
    BY <2>1, NoCallShape DEF RequestRecords, ChainSound
  <2> QED BY <2>2 DEF t
<1>4. ASSUME x.chain # <<>>
      PROVE  /\ [NoCall EXCEPT !.pc = "answered", !.process = x.process, !.chain = <<Head(x.chain)>>]
                  \in RequestRecords
             /\ ChainSound([NoCall EXCEPT !.pc = "answered", !.process = x.process,
                                          !.chain = <<Head(x.chain)>>])
  <2> DEFINE t == <<Head(x.chain)>>
  <2>1. t \in Chains /\ t \in Seq(Providers) /\ t # <<>>
    BY <1>4, FirstAndRest DEF ChainSound, Chains
  <2> HIDE DEF t
  <2>2. /\ [NoCall EXCEPT !.pc = "answered", !.process = x.process, !.chain = t] \in RequestRecords
        /\ ChainSound([NoCall EXCEPT !.pc = "answered", !.process = x.process, !.chain = t])
    BY <2>1, NoCallShape DEF NoCall, RequestRecords, ChainSound
  <2> QED BY <2>2 DEF t
<1> QED BY <1>1, <1>2, <1>3, <1>4

LEMMA RequestTyped ==
  ASSUME GatewayTyped, GatewayIInv, NEW r \in Calls, RequestNext(r)
  PROVE  GatewayTyped'
<1> DEFINE c == call[r]
<1>1. /\ c \in RequestRecords /\ ChainSound(c)
      /\ c.pc # "idle" => c.process \in Processes
      /\ c.loaded \in Data
  BY DEF GatewayTyped, GatewayTypeOK, GatewayIInv, RequestsInv, RequestSound, RequestRecords
<1>2. c.chain # <<>> => Provider(r) \in Providers
  BY <1>1, FirstAndRest DEF Provider, ChainSound
(* What is left to show of a step: what it writes to the request and to    *)
(* the stores is of its type.                                              *)
<1>3. ASSUME NEW x \in RequestRecords, ChainSound(x), call' = [call EXCEPT ![r] = x],
             memory' \in [Processes -> [Providers -> Data]],
             stored' \in [Providers -> Data \cup {NoProvider}],
             failed' \in [Providers -> Nat], usage' \in Nat,
             UNCHANGED <<now, config, reachable, faults>>
      PROVE  GatewayTyped'
  <2>1. call' \in [Calls -> RequestRecords] /\ \A q \in Calls : ChainSound(call'[q])
    BY <1>3, OneCall
  <2> QED BY <1>3, <2>1 DEF GatewayTyped, GatewayTypeOK
<1>4. ASSUME NEW x \in RequestRecords, ChainSound(x), call' = [call EXCEPT ![r] = x],
             UNCHANGED <<now, config, breakerVars, usage>>
      PROVE  GatewayTyped'
  <2>1. /\ memory' \in [Processes -> [Providers -> Data]]
        /\ stored' \in [Providers -> Data \cup {NoProvider}]
        /\ failed' \in [Providers -> Nat] /\ usage' \in Nat
        /\ UNCHANGED <<now, config, reachable, faults>>
    BY <1>4 DEF GatewayTyped, GatewayTypeOK, breakerVars
  <2> QED BY <1>3, <1>4, <2>1
<1>5. ASSUME NEW d \in Data, c.chain # <<>>, c.pc # "idle", SaveInMemory(r, d),
             failed' \in [Providers -> Nat], UNCHANGED <<now, config, stored, reachable, faults, usage>>
      PROVE  GatewayTyped'
  <2> DEFINE x == [c EXCEPT !.pc = "writing", !.loaded = d]
  <2>1. x \in RequestRecords /\ ChainSound(x)
    BY <1>1, <1>5, RecordsTyped
  <2>2. call' = [call EXCEPT ![r] = x]
    BY <1>5 DEF SaveInMemory, GatewayTyped, GatewayTypeOK
  <2>3. memory' \in [Processes -> [Providers -> Data]]
    BY <1>1, <1>2, <1>5 DEF SaveInMemory, GatewayTyped, GatewayTypeOK
  <2>4. stored' \in [Providers -> Data \cup {NoProvider}] /\ usage' \in Nat
    BY <1>5 DEF GatewayTyped, GatewayTypeOK
  <2> HIDE DEF x
  <2> QED BY <1>3, <1>5, <2>1, <2>2, <2>3, <2>4
<1>6. ASSUME Proceed(r) \/ Answer(r) \/ Leave(r), c.chain # <<>> \/ Leave(r)
      PROVE  \E x \in RequestRecords : ChainSound(x) /\ call' = [call EXCEPT ![r] = x]
  <2>1. CASE Leave(r)
    BY <2>1, NoCallShape DEF Leave
  <2>2. CASE Proceed(r) /\ c.chain # <<>>
    <3> DEFINE x == [c EXCEPT !.pc = "choosing", !.chain = Tail(@), !.loaded = NoData, !.outcome = "none"]
    <3>1. x \in RequestRecords /\ ChainSound(x)
      BY <1>1, <2>2, RecordsTyped
    <3>2. call' = [call EXCEPT ![r] = x]
      BY <2>2 DEF Proceed, GatewayTyped, GatewayTypeOK
    <3> HIDE DEF x
    <3> QED BY <3>1, <3>2
  <2>3. CASE Answer(r) /\ c.chain # <<>>
    <3> DEFINE x == [NoCall EXCEPT !.pc = "answered", !.process = c.process, !.chain = <<Head(c.chain)>>]
    <3>1. x \in RequestRecords /\ ChainSound(x)
      BY <1>1, <2>3, RecordsTyped
    <3>2. call' = [call EXCEPT ![r] = x]
      BY <2>3 DEF Answer, Provider
    <3> HIDE DEF x
    <3> QED BY <3>1, <3>2
  <2> QED BY <1>6, <2>1, <2>2, <2>3
<1>7. CASE ReadState(r)
  <2> DEFINE l == IF Load(r, Provider(r)).state = "open" THEN "reopening" ELSE "calling"
             x == [c EXCEPT !.pc = l]
  <2>1. c.chain # <<>> /\ l \in {"reopening", "calling"}
    BY <1>7 DEF ReadState
  <2>2. call' = [call EXCEPT ![r] = x]
    BY <1>7 DEF ReadState, Goto
  <2> HIDE DEF l
  <2>3. x \in RequestRecords /\ ChainSound(x)
    BY <1>1, <2>1, NoCallShape, RecordsTyped
  <2> HIDE DEF x
  <2> QED BY <1>4, <1>7, <2>2, <2>3 DEF ReadState
<1>8. CASE ReadData(r)
  <2> DEFINE d == Load(r, Provider(r))
             x == [c EXCEPT !.pc = "probing", !.loaded = d]
  <2>1. c.chain # <<>> /\ c.pc = "reopening"
    BY <1>1, <1>8 DEF ReadData, At, ChainSound
  <2>2. d \in Data
    BY <1>1, <1>2, <2>1, LoadType
  <2>3. CASE Recovered(d)
    <3>1. call' = [call EXCEPT ![r] = x]
      BY <1>8, <2>3 DEF ReadData, GatewayTyped, GatewayTypeOK
    <3>2. x \in RequestRecords /\ ChainSound(x)
      BY <1>1, <2>1, <2>2, RecordsTyped
    <3> HIDE DEF x
    <3> QED BY <1>4, <1>8, <3>1, <3>2 DEF ReadData
  <2>4. CASE ~Recovered(d)
    <3>1. Proceed(r)
      BY <1>8, <2>4 DEF ReadData
    <3> QED BY <1>4, <1>6, <1>8, <2>1, <3>1 DEF ReadData
  <2> QED BY <2>3, <2>4
<1>9. CASE HalfOpen(r)
  <2>1. c.chain # <<>> /\ c.pc # "idle"
    BY <1>1, <1>9 DEF HalfOpen, At, ChainSound
  <2>2. [c.loaded EXCEPT !.state = "half_open"] \in Data
    BY <1>1 DEF Data
  <2>3. failed' \in [Providers -> Nat]
    BY <1>9 DEF HalfOpen, GatewayTyped, GatewayTypeOK
  <2> QED BY <1>5, <1>9, <2>1, <2>2, <2>3 DEF HalfOpen
<1>10. CASE Exhausted(r) \/ Unconfigured(r) \/ Abort(r)
  <2>1. Leave(r) /\ UNCHANGED <<now, config, breakerVars, usage>>
    BY <1>10 DEF Exhausted, Unconfigured, Abort
  <2> QED BY <1>4, <1>6, <2>1
<1>11. ASSUME NEW o \in {"success", "transient", "permanent"}, Call(r, o)
       PROVE  GatewayTyped'
  <2> DEFINE d == Load(r, Provider(r))
             x == [c EXCEPT !.pc = "saving", !.outcome = o, !.loaded = d]
  <2>1. c.chain # <<>> /\ c.pc = "calling"
    BY <1>1, <1>11 DEF Call, At, ChainSound
  <2>2. d \in Data
    BY <1>1, <1>2, <2>1, LoadType
  <2>3. call' = [call EXCEPT ![r] = x]
    BY <1>11 DEF Call, GatewayTyped, GatewayTypeOK
  <2>4. x \in RequestRecords /\ ChainSound(x)
    BY <1>1, <2>1, <2>2, RecordsTyped
  <2> HIDE DEF x
  <2> QED BY <1>4, <1>11, <2>3, <2>4 DEF Call
<1>12. CASE OpenStream(r)
  <2>1. c.chain # <<>> /\ Answer(r)
    BY <1>1, <1>12 DEF OpenStream, At, ChainSound
  <2> QED BY <1>4, <1>6, <1>12, <2>1 DEF OpenStream
<1>13. CASE RecordSuccess(r)
  <2>1. c.chain # <<>> /\ c.pc # "idle"
    BY <1>1, <1>13 DEF RecordSuccess, At, ChainSound
  <2>2. AfterSuccess(c.loaded) \in Data
    BY <1>1 DEF AfterSuccess, Data
  <2>3. failed' \in [Providers -> Nat]
    BY <1>13 DEF RecordSuccess, GatewayTyped, GatewayTypeOK
  <2> QED BY <1>5, <1>13, <2>1, <2>2, <2>3 DEF RecordSuccess
<1>14. CASE RecordFailure(r)
  <2>1. c.chain # <<>> /\ c.pc # "idle"
    BY <1>1, <1>14 DEF RecordFailure, At, ChainSound
  <2>2. AfterFailure(c.loaded) \in Data
    <3> DEFINE d == c.loaded
               open == [state |-> "open", failures |-> d.failures + 1, openedAt |-> now]
               counted == [d EXCEPT !.state = "closed", !.failures = @ + 1]
    <3>1. now \in Nat
      BY GatewayAssumption DEF GatewayTyped, GatewayTypeOK
    <3>2. d \in Data /\ d.failures \in Nat
      BY <1>1 DEF Data
    <3>4. open \in Data /\ counted \in Data
      <4> HIDE DEF d
      <4>1. open \in Data
        BY <3>1, <3>2 DEF Data
      <4>2. d.failures + 1 \in Nat
        BY <3>2
      <4> QED BY <3>2, <4>1, <4>2, UpdatedData
    <3>3. AfterFailure(d) = open \/ AfterFailure(d) = counted
      BY DEF AfterFailure
    <3> HIDE DEF open, counted
    <3> QED BY <3>3, <3>4
  <2>3. failed' \in [Providers -> Nat]
    BY <1>2, <1>14, <2>1 DEF RecordFailure, GatewayTyped, GatewayTypeOK
  <2> QED BY <1>5, <1>14, <2>1, <2>2, <2>3 DEF RecordFailure
<1>15. CASE WriteRedis(r)
  <2>1. c.chain # <<>>
    BY <1>1, <1>15 DEF WriteRedis, At, ChainSound
  <2>2. /\ stored' \in [Providers -> Data \cup {NoProvider}]
        /\ memory' \in [Processes -> [Providers -> Data]]
        /\ failed' \in [Providers -> Nat] /\ usage' \in Nat
        /\ UNCHANGED <<now, config, reachable, faults>>
    BY <1>1, <1>2, <1>15, <2>1 DEF WriteRedis, GatewayTyped, GatewayTypeOK
  <2>3. CASE c.outcome = "none"
    <3> DEFINE x == [c EXCEPT !.pc = "calling", !.loaded = NoData]
    <3>1. call' = [call EXCEPT ![r] = x]
      BY <1>15, <2>3 DEF WriteRedis, GatewayTyped, GatewayTypeOK
    <3>2. x \in RequestRecords /\ ChainSound(x)
      BY <1>1, <2>1, NoCallShape, RecordsTyped
    <3> HIDE DEF x
    <3> QED BY <1>3, <2>2, <3>1, <3>2
  <2>4. CASE c.outcome # "none"
    <3>1. Answer(r) \/ Proceed(r) \/ Leave(r)
      BY <1>15, <2>4 DEF WriteRedis
    <3> QED BY <1>3, <1>6, <2>1, <2>2, <3>1
  <2> QED BY <2>3, <2>4
<1>16. CASE CommitUsage(r)
  <2>1. /\ stored' \in [Providers -> Data \cup {NoProvider}]
        /\ memory' \in [Processes -> [Providers -> Data]]
        /\ failed' \in [Providers -> Nat] /\ usage' \in Nat
        /\ UNCHANGED <<now, config, reachable, faults>>
    BY <1>16 DEF CommitUsage, GatewayTyped, GatewayTypeOK, breakerVars
  <2>2. Leave(r)
    BY <1>16 DEF CommitUsage
  <2> QED BY <1>3, <1>6, <2>1, <2>2
<1> QED BY <1>7, <1>8, <1>9, <1>10, <1>11, <1>12, <1>13, <1>14, <1>15, <1>16 DEF RequestNext

LEMMA GatewayTypedStep == GatewayTyped /\ GatewayIInv /\ [GatewayNext]_gatewayVars => GatewayTyped'
<1> SUFFICES ASSUME GatewayTyped, GatewayIInv, [GatewayNext]_gatewayVars PROVE GatewayTyped'
  OBVIOUS
<1> USE DEF GatewayTyped, GatewayTypeOK
<1>1. CASE \E r \in Calls, s \in Processes, k \in {"answer", "stream"},
             named \in config.named \cup {NoProvider} : Enter(r, s, k, named)
  <2> HIDE DEF GatewayTyped
  <2> QED BY <1>1, EntersTyped
<1>2. CASE \E r \in Calls : RequestNext(r)
  <2> HIDE DEF GatewayTyped
  <2> QED BY <1>2, RequestTyped
<1>3. CASE Tick
  BY <1>3, GatewayAssumption DEF Tick, breakerVars
<1>4. CASE NextDay
  BY <1>4 DEF NextDay, breakerVars
<1>5. CASE RedisFails
  <2>1. faults < MaxFaults /\ faults' = faults + 1
    BY <1>5, Zenon DEF RedisFails, Fault
  <2>2. faults' \in 0..MaxFaults
    BY <2>1, GatewayAssumption
  <2>3. reachable' \in BOOLEAN
    BY <1>5, Zenon DEF RedisFails
  <2>4. UNCHANGED <<now, config, stored, memory, failed, usage, call>>
    BY <1>5, Zenon DEF RedisFails
  <2> QED BY <2>2, <2>3, <2>4
<1>6. CASE RedisReturns
  BY <1>6 DEF RedisReturns
<1>7. CASE \E p \in Providers : RedisForgets(p)
  BY <1>7, GatewayAssumption DEF RedisForgets, Fault
<1>8. CASE \E s \in Processes : Restart(s)
  <2> PICK s \in Processes : Restart(s)
    BY <1>8
  <2>1. call' \in [Calls -> RequestRecords] /\ \A q \in Calls : ChainSound(call'[q])
    BY NoCallShape DEF Restart
  <2>2. memory' \in [Processes -> [Providers -> Data]]
    BY NoCallShape DEF Restart
  <2> QED BY <2>1, <2>2, GatewayAssumption DEF Restart, Fault
<1>9. CASE UNCHANGED gatewayVars
  BY <1>9 DEF gatewayVars, breakerVars
<1> QED BY <1>1, <1>2, <1>3, <1>4, <1>5, <1>6, <1>7, <1>8, <1>9 DEF GatewayNext

LEMMA GatewayTypedInit == GatewayInit => GatewayTyped
BY NoCallShape, GatewayAssumption DEF GatewayInit, GatewayTyped, GatewayTypeOK

LEMMA GatewayAlwaysTyped == GatewaySpec => [](GatewayTyped /\ GatewayIInv)
<1>1. GatewayInit => GatewayTyped /\ GatewayIInv
  BY GatewayTypedInit, Initially
<1>2. GatewayTyped /\ GatewayIInv /\ [GatewayNext]_gatewayVars => (GatewayTyped /\ GatewayIInv)'
  BY GatewayTypedStep, GatewayInvariance
<1> QED BY <1>1, <1>2, PTL DEF GatewaySpec

(* The type of the gateway, for every policy: what resolve_provider_chain  *)
(* gives a request and what it has left of it are providers.               *)
THEOREM GatewayTypeCorrect == GatewaySpec => []GatewayTypeOK
<1>1. GatewayTyped => GatewayTypeOK
  BY DEF GatewayTyped
<1> QED BY <1>1, GatewayAlwaysTyped, PTL

(* A request that skips a provider or falls back from it does not come     *)
(* back to it, however often the policy names it.                          *)
FallbackMovesOn ==
  [][\A r \in Calls : call[r].pc \in {"reopening", "writing"} /\ call'[r].pc = "choosing" =>
       Provider(r) \notin ToSet(call'[r].chain)]_gatewayVars

(* No request calls a provider twice: resolve_provider_chain names each     *)
(* once, and a request that falls back goes on to the rest.                *)
THEOREM NoProviderTwice == GatewaySpec => FallbackMovesOn
<1>1. ASSUME GatewayTyped, [GatewayNext]_gatewayVars, NEW r \in Calls,
             call[r].pc \in {"reopening", "writing"}, call'[r].pc = "choosing"
      PROVE  call'[r].chain = Tail(call[r].chain)
  <2> DEFINE c == call[r]
  <2>1. call \in [Calls -> RequestRecords] /\ c \in RequestRecords /\ call'[r] # c
    BY <1>1 DEF GatewayTyped, GatewayTypeOK
  <2>2. ASSUME NEW q \in Calls \ {r}, NEW s, NEW k, NEW named, RequestNext(q) \/ Enter(q, s, k, named)
        PROVE  call'[r] = c
    BY <2>1, <2>2 DEF RequestNext, Enter, ReadState, ReadData, HalfOpen, Exhausted, Unconfigured, Call,
       OpenStream, RecordSuccess, RecordFailure, WriteRedis, CommitUsage, Abort, Goto, Leave,
       Proceed, Answer, SaveInMemory
  <2>3. ASSUME NEW s, NEW k, NEW named, Enter(r, s, k, named) PROVE FALSE
    BY <1>1, <2>3 DEF Enter, At
  <2>4. ASSUME RequestNext(r) PROVE ReadData(r) \/ WriteRedis(r)
    BY <1>1, <2>4 DEF RequestNext, ReadState, HalfOpen, Exhausted, Unconfigured, Call, OpenStream,
       RecordSuccess, RecordFailure, CommitUsage, Abort, At
  <2>5. ASSUME ReadData(r) \/ WriteRedis(r) PROVE Proceed(r)
    <3>1. CASE ReadData(r)
      <4> DEFINE d == Load(r, Provider(r))
      <4>1. Proceed(r) \/ call' = [call EXCEPT ![r].pc = "probing", ![r].loaded = d]
        BY <3>1, Zenon DEF ReadData
      <4> HIDE DEF d
      <4>2. call' # [call EXCEPT ![r].pc = "probing", ![r].loaded = d]
        BY <1>1, <2>1 DEF RequestRecords
      <4> QED BY <4>1, <4>2
    <3>2. CASE WriteRedis(r)
      <4>1. Proceed(r) \/ Answer(r) \/ Leave(r)
              \/ call' = [call EXCEPT ![r].pc = "calling", ![r].loaded = NoData]
        BY <3>2, Zenon DEF WriteRedis
      <4>2. call' # [call EXCEPT ![r].pc = "calling", ![r].loaded = NoData]
        BY <1>1, <2>1 DEF RequestRecords
      <4>3. ~Leave(r)
        BY <1>1, <2>1, IdleFields DEF Leave
      <4>4. ~Answer(r)
        <5> DEFINE next == [NoCall EXCEPT !.pc = "answered", !.process = call[r].process,
                                          !.chain = <<Provider(r)>>]
        <5>1. next.pc = "answered"
          BY DEF NoCall
        <5>2. Answer(r) => call' = [call EXCEPT ![r] = next]
          BY DEF Answer
        <5> HIDE DEF next
        <5> QED BY <1>1, <2>1, <5>1, <5>2
      <4> QED BY <4>1, <4>2, <4>3, <4>4
    <3> QED BY <2>5, <3>1, <3>2
  <2>6. Proceed(r) => call'[r].chain = Tail(c.chain)
    BY <2>1 DEF Proceed, RequestRecords
  <2>7. ASSUME NEW s \in Processes, Restart(s) PROVE FALSE
    BY <1>1, <2>1, <2>7 DEF Restart, NoCall
  <2>8. Tick \/ NextDay \/ RedisFails \/ RedisReturns \/ (\E p \in Providers : RedisForgets(p))
          \/ UNCHANGED gatewayVars => call' = call
    BY DEF Tick, NextDay, RedisFails, RedisReturns, RedisForgets, gatewayVars
  <2> QED BY <1>1, <2>1, <2>2, <2>3, <2>4, <2>5, <2>6, <2>7, <2>8 DEF GatewayNext
<1>2. ASSUME GatewayTyped, NEW r \in Calls, call[r].pc \in {"reopening", "writing"}
      PROVE  Provider(r) \notin ToSet(Tail(call[r].chain))
  BY <1>2, FirstAndRest DEF GatewayTyped, ChainSound, Provider
<1>3. GatewayTyped /\ [GatewayNext]_gatewayVars =>
        [\A r \in Calls : call[r].pc \in {"reopening", "writing"} /\ call'[r].pc = "choosing" =>
           Provider(r) \notin ToSet(call'[r].chain)]_gatewayVars
  BY <1>1, <1>2
<1> QED BY <1>3, GatewayAlwaysTyped, PTL DEF GatewaySpec, FallbackMovesOn

-----------------------------------------------------------------------------
(* The quota                                                               *)

(* What a step does to the requests that count against the quota: one more *)
(* within the quota, one less for its usage event, or none more.           *)
LEMMA AdmittedSteps ==
  ASSUME GatewayIInv, [GatewayNext]_gatewayVars
  PROVE  \/ /\ usage' = usage /\ usage + 1 <= Quota
            /\ Admitted' \subseteq Calls
         \/ /\ usage' = usage + 1
            /\ \E r \in Admitted : Admitted' \subseteq Admitted \ {r}
         \/ usage' <= usage /\ Admitted' \subseteq Admitted
<1> USE DEF breakerVars, At
<1>1. Admitted' \subseteq Calls
  BY DEF Admitted
<1>2. ASSUME NEW r \in Calls, call[r].pc # "idle",
             \A q \in Calls \ {r} : call'[q] = call[q]
      PROVE  Admitted' \subseteq Admitted
  BY <1>2 DEF Admitted
<1>3. ASSUME NEW r \in Calls, NEW s \in Processes, NEW k, NEW named, Enter(r, s, k, named)
      PROVE  usage' = usage /\ usage + 1 <= Quota
  BY <1>3 DEF Enter, WithinQuota
<1>4. ASSUME NEW r \in Calls, RequestNext(r), ~CommitUsage(r)
      PROVE  usage' = usage /\ Admitted' \subseteq Admitted
  <2>1. call[r].pc # "idle" /\ usage' = usage
    BY <1>4 DEF RequestNext, ReadState, ReadData, HalfOpen, Exhausted, Unconfigured, Call,
                OpenStream, RecordSuccess, RecordFailure, WriteRedis, Abort
  <2>2. \A q \in Calls \ {r} : call'[q] = call[q]
    BY <1>4 DEF RequestNext, ReadState, ReadData, HalfOpen, Exhausted, Unconfigured, Call,
                OpenStream, RecordSuccess, RecordFailure, WriteRedis, Abort, Goto, Leave,
                Proceed, Answer, SaveInMemory, GatewayIInv, RequestsInv
  <2> QED BY <1>2, <2>1, <2>2
<1>5. ASSUME NEW r \in Calls, CommitUsage(r)
      PROVE  usage' = usage + 1 /\ r \in Admitted /\ Admitted' \subseteq Admitted \ {r}
  BY <1>5, IdleFields DEF CommitUsage, Leave, Admitted, GatewayIInv, RequestsInv
<1>6. CASE Tick \/ RedisFails \/ RedisReturns \/ (\E p \in Providers : RedisForgets(p)) \/ UNCHANGED gatewayVars
  BY <1>6 DEF Tick, RedisFails, RedisReturns, RedisForgets, gatewayVars, Admitted, GatewayIInv, CountersInv
<1>7. CASE NextDay
  BY <1>7 DEF NextDay, Admitted, GatewayIInv, CountersInv
<1>8. ASSUME NEW s \in Processes, Restart(s)
      PROVE  usage' = usage /\ Admitted' \subseteq Admitted
  BY <1>8, IdleFields DEF Restart, Admitted
<1> QED
  <2>1. usage \in Nat
    BY DEF GatewayIInv, CountersInv
  <2> QED BY <1>1, <1>3, <1>4, <1>5, <1>6, <1>7, <1>8, <2>1 DEF GatewayNext

LEMMA AdmittedCount ==
  ASSUME NEW A, NEW B, A \subseteq B, IsFiniteSet(B)
  PROVE  /\ Cardinality(A) \in Nat /\ Cardinality(B) \in Nat
         /\ Cardinality(A) <= Cardinality(B)
         /\ \A x \in B : A \subseteq B \ {x} => Cardinality(A) <= Cardinality(B) - 1
<1>1. Cardinality(A) \in Nat /\ Cardinality(B) \in Nat /\ Cardinality(A) <= Cardinality(B)
  BY FS_Subset, FS_CardinalityType
<1>2. ASSUME NEW x \in B, A \subseteq B \ {x}
      PROVE  Cardinality(A) <= Cardinality(B) - 1
  <2>1. IsFiniteSet(B \ {x}) /\ Cardinality(B \ {x}) = Cardinality(B) - 1
    BY FS_RemoveElement
  <2> QED BY <1>2, <2>1, FS_Subset
<1> QED BY <1>1, <1>2

(* Overlapping requests exceed the daily limit by no more than those that  *)
(* are in flight: enforce_quotas admits a request only below the limit,    *)
(* and every usage event belongs to a request that was admitted.           *)
THEOREM QuotaOvershoot == GatewaySpec => []OvershootIsBounded
<1>1. GatewayInit => OvershootIsBounded
  <2> SUFFICES ASSUME GatewayInit PROVE OvershootIsBounded
    OBVIOUS
  <2>1. usage = 0 /\ Admitted = {}
    BY IdleFields DEF GatewayInit, Admitted
  <2>2. Cardinality({}) = 0 /\ Cardinality(Calls) \in Nat
    BY FS_EmptySet, FS_CardinalityType, GatewayAssumption
  <2> QED BY <2>1, <2>2, GatewayAssumption DEF OvershootIsBounded
<1>2. GatewayIInv /\ OvershootIsBounded /\ [GatewayNext]_gatewayVars => OvershootIsBounded'
  <2> SUFFICES ASSUME GatewayIInv, OvershootIsBounded, [GatewayNext]_gatewayVars PROVE OvershootIsBounded'
    OBVIOUS
  <2>1. Admitted \subseteq Calls /\ Admitted' \subseteq Calls /\ IsFiniteSet(Calls)
    BY GatewayAssumption DEF Admitted
  <2>2. IsFiniteSet(Admitted) /\ IsFiniteSet(Admitted')
    BY <2>1, FS_Subset
  <2>3. usage \in Nat /\ usage' \in Nat
    BY GatewayInvariance DEF GatewayIInv, CountersInv
  <2>4. /\ Cardinality(Admitted) \in Nat /\ Cardinality(Admitted') \in Nat
        /\ Cardinality(Calls) \in Nat /\ Cardinality(Admitted') <= Cardinality(Calls)
    BY <2>1, AdmittedCount
  <2>5. CASE usage' = usage /\ usage + 1 <= Quota
    BY <2>3, <2>4, <2>5, GatewayAssumption DEF OvershootIsBounded
  <2>6. CASE usage' = usage + 1 /\ \E r \in Admitted : Admitted' \subseteq Admitted \ {r}
    <3>1. Cardinality(Admitted') <= Cardinality(Admitted) - 1
      BY <2>2, <2>6, AdmittedCount
    <3> QED BY <2>3, <2>4, <2>6, <3>1, GatewayAssumption DEF OvershootIsBounded
  <2>7. CASE usage' <= usage /\ Admitted' \subseteq Admitted
    <3>1. Cardinality(Admitted') <= Cardinality(Admitted)
      BY <2>2, <2>7, AdmittedCount
    <3> QED BY <2>3, <2>4, <2>7, <3>1, GatewayAssumption DEF OvershootIsBounded
  <2> QED BY <2>5, <2>6, <2>7, AdmittedSteps
<1> QED BY <1>1, <1>2, GatewayInductive, PTL DEF GatewaySpec
=============================================================================
