---------------------------- MODULE JudgePipeline ----------------------------
(***************************************************************************)
(* The asynchronous judge: internal/judge/service.go, its task store       *)
(* (internal/judge/store/repository.go), its queue (asynq, through         *)
(* internal/judge/queue/asynq.go) and the worker that serves it            *)
(* (internal/judge/worker/handler.go, internal/server/worker.go).          *)
(*                                                                         *)
(* A job is a stored submission with code and a language; its caller runs  *)
(* CreateAndEnqueue for it once, inside an API request.  The store calls   *)
(* of that function and of ProcessTask are separate statements, outside    *)
(* any transaction, so each of them is one action here and everything      *)
(* else may happen in between: a worker may take the message before its    *)
(* task row says QUEUED, a statement may fail, the API process or a worker *)
(* may die, and redis, which persists nothing in the deployment, may       *)
(* restart empty.                                                          *)
(***************************************************************************)
EXTENDS Naturals, FiniteSets

CONSTANTS
  Jobs,       \* programming submissions
  Workers,    \* concurrent handlers of the worker process (Concurrency: 4)
  Verdicts,   \* terminal statuses a task can be completed with
  MaxRetry,   \* asynq.MaxRetry(3): redeliveries after the first delivery
  MaxFaults,  \* bound on failing statements, crashes and redis restarts
  None        \* "no job" and "no verdict"

VARIABLES
  dispatch,   \* where each job's CreateAndEnqueue call stands
  task,       \* status column of each job's judge_tasks row
  msg,        \* each job's asynq message
  retried,    \* redeliveries of that message so far
  wpc,        \* where each worker's ProcessTask call stands
  wjob,       \* the job a worker is processing
  verdict,    \* the status local to a ProcessTask call after the sandbox ran
  executions, \* history: times each job's code ran in the sandbox
  faults      \* faults so far

Row == INSTANCE TaskLifecycle WITH Jobs <- Jobs, Verdicts <- Verdicts, task <- task

dispatcherVars == <<dispatch>>
workerVars     == <<wpc, wjob, verdict, executions>>
judgeVars      == <<dispatch, task, msg, retried, wpc, wjob, verdict, executions, faults>>

DispatchStates == {"idle", "created", "enqueued", "deleting", "done", "failed", "crashed"}
MessageStates  == {"none", "ready", "active", "acked", "archived", "lost"}
WorkerStates   == {"idle", "fetched", "starting", "judging", "completing", "reporting"}
TaskStatuses   == Row!NonTerminal \cup Verdicts

ASSUME JudgeAssumption ==
  /\ MaxRetry \in Nat
  /\ MaxFaults \in Nat
  /\ Verdicts \cap Row!NonTerminal = {}
  /\ None \notin Jobs
  /\ None \notin Verdicts

JudgeTypeOK ==
  /\ dispatch   \in [Jobs -> DispatchStates]
  /\ task       \in [Jobs -> TaskStatuses]
  /\ msg        \in [Jobs -> MessageStates]
  /\ retried    \in [Jobs -> 0..MaxRetry]
  /\ wpc        \in [Workers -> WorkerStates]
  /\ wjob       \in [Workers -> Jobs \cup {None}]
  /\ verdict    \in [Workers -> Verdicts \cup {None}]
  /\ executions \in [Jobs -> Nat]
  /\ faults     \in 0..MaxFaults

JudgeInit ==
  /\ dispatch   = [j \in Jobs |-> "idle"]
  /\ task       = [j \in Jobs |-> Row!Absent]
  /\ msg        = [j \in Jobs |-> "none"]
  /\ retried    = [j \in Jobs |-> 0]
  /\ wpc        = [w \in Workers |-> "idle"]
  /\ wjob       = [w \in Workers |-> None]
  /\ verdict    = [w \in Workers |-> None]
  /\ executions = [j \in Jobs |-> 0]
  /\ faults     = 0

Fault   == faults < MaxFaults /\ faults' = faults + 1
NoFault == UNCHANGED faults

-----------------------------------------------------------------------------
(* CreateAndEnqueue, one call per job.                                     *)

Dispatched(j, from, to) ==
  /\ dispatch[j] = from
  /\ dispatch' = [dispatch EXCEPT ![j] = to]
  /\ UNCHANGED workerVars

CreateTask(j) ==
  /\ Dispatched(j, "idle", "created")
  /\ task' = [task EXCEPT ![j] = Row!Pending]
  /\ NoFault /\ UNCHANGED <<msg, retried>>

CreateTaskFails(j) ==
  /\ Dispatched(j, "idle", "failed")
  /\ Fault /\ UNCHANGED <<task, msg, retried>>

EnqueueTask(j) ==
  /\ Dispatched(j, "created", "enqueued")
  /\ msg' = [msg EXCEPT ![j] = "ready"]
  /\ NoFault /\ UNCHANGED <<task, retried>>

(* The client reports an error; redis may have stored the message anyway.  *)
EnqueueTaskFails(j) ==
  /\ Dispatched(j, "created", "deleting")
  /\ \/ UNCHANGED msg
     \/ msg' = [msg EXCEPT ![j] = "ready"]
  /\ Fault /\ UNCHANGED <<task, retried>>

DeleteTask(j) ==
  /\ Dispatched(j, "deleting", "failed")
  /\ task' = [task EXCEPT ![j] = Row!Deleted]
  /\ NoFault /\ UNCHANGED <<msg, retried>>

(* The error of tasks.Delete is dropped: the row stays behind.             *)
DeleteTaskFails(j) ==
  /\ Dispatched(j, "deleting", "failed")
  /\ Fault /\ UNCHANGED <<task, msg, retried>>

(* tasks.Update saves the caller's whole copy of the row, whatever the row *)
(* has become since it was created.                                        *)
MarkTaskQueued(j) ==
  /\ Dispatched(j, "enqueued", "done")
  /\ task' = [task EXCEPT ![j] = Row!Queued]
  /\ NoFault /\ UNCHANGED <<msg, retried>>

MarkTaskQueuedFails(j) ==
  /\ Dispatched(j, "enqueued", "failed")
  /\ Fault /\ UNCHANGED <<task, msg, retried>>

DispatcherCrash(j) ==
  /\ \E pc \in {"created", "enqueued", "deleting"} : Dispatched(j, pc, "crashed")
  /\ Fault /\ UNCHANGED <<task, msg, retried>>

-----------------------------------------------------------------------------
(* The queue and the worker.                                               *)

(* asynq hands a message to one worker; it becomes available again only    *)
(* when that delivery has failed.                                          *)
TakeMessage(w, j) ==
  /\ wpc[w] = "idle"
  /\ msg[j] = "ready"
  /\ msg'  = [msg EXCEPT ![j] = "active"]
  /\ wpc'  = [wpc EXCEPT ![w] = "fetched"]
  /\ wjob' = [wjob EXCEPT ![w] = j]
  /\ NoFault /\ UNCHANGED <<dispatch, task, retried, verdict, executions>>

Advance(w, from, to) ==
  /\ wpc[w] = from
  /\ wpc' = [wpc EXCEPT ![w] = to]
  /\ NoFault /\ UNCHANGED <<dispatch, msg, retried, wjob>>

Release(w) ==
  /\ wpc'     = [wpc EXCEPT ![w] = "idle"]
  /\ wjob'    = [wjob EXCEPT ![w] = None]
  /\ verdict' = [verdict EXCEPT ![w] = None]
  /\ UNCHANGED <<dispatch, task, executions>>

FailDelivery_OneMore(w) ==
  LET j == wjob[w] IN
  /\ \/ /\ msg[j] = "active" /\ retried[j] <= MaxRetry
        /\ msg'     = [msg EXCEPT ![j] = "ready"]
        /\ retried' = [retried EXCEPT ![j] = @ + 1]
     \/ /\ msg[j] = "active" /\ retried[j] > MaxRetry
        /\ msg' = [msg EXCEPT ![j] = "archived"]
        /\ UNCHANGED retried
     \/ /\ msg[j] = "lost"
        /\ UNCHANGED <<msg, retried>>
  /\ Release(w)

FailDelivery_Uncounted(w) ==
  /\ msg' = [msg EXCEPT ![wjob[w]] = IF @ = "active" THEN "ready" ELSE @]
  /\ UNCHANGED retried
  /\ Release(w)

(* A delivery that returns an error, or whose worker died, is delivered    *)
(* again until the retries are used up; a message redis has lost is not.   *)
FailDelivery(w) ==
  LET j == wjob[w] IN
  /\ \/ /\ msg[j] = "active" /\ retried[j] < MaxRetry
        /\ msg'     = [msg EXCEPT ![j] = "ready"]
        /\ retried' = [retried EXCEPT ![j] = @ + 1]
     \/ /\ msg[j] = "active" /\ retried[j] = MaxRetry
        /\ msg' = [msg EXCEPT ![j] = "archived"]
        /\ UNCHANGED retried
     \/ /\ msg[j] = "lost"
        /\ UNCHANGED <<msg, retried>>
  /\ Release(w)

CanMarkRunning_OrRetry(status)   == status \in {Row!Queued, Row!Running}
CanMarkRunning_OrPending(status) == status \in {Row!Queued, Row!Pending}
CanMarkRunning_IfNew(status)     == status = Row!Pending
CanMarkRunning_IfFound(status)   == status \notin {Row!Absent, Row!Deleted}

(* FindByID and Task.MarkRunning on the copy it returned.                  *)
CanMarkRunning(status) == status = Row!Queued

LoadTask(w) ==
  /\ Advance(w, "fetched", "starting")
  /\ CanMarkRunning(task[wjob[w]])
  /\ UNCHANGED <<task, verdict, executions>>

RejectTask_Dropped(w) ==
  /\ wpc[w] = "fetched"
  /\ ~CanMarkRunning(task[wjob[w]])
  /\ msg' = [msg EXCEPT ![wjob[w]] = IF @ = "active" THEN "acked" ELSE @]
  /\ Release(w)
  /\ NoFault /\ UNCHANGED retried

RejectTask(w) ==
  /\ wpc[w] = "fetched"
  /\ ~CanMarkRunning(task[wjob[w]])
  /\ FailDelivery(w)
  /\ NoFault

SaveRunning(w) ==
  /\ Advance(w, "starting", "judging")
  /\ task' = [task EXCEPT ![wjob[w]] = Row!Running]
  /\ UNCHANGED <<verdict, executions>>

(* The submission and the test cases are read, the sandbox runs.           *)
RunSandbox(w) ==
  /\ Advance(w, "judging", "completing")
  /\ \E v \in Verdicts : verdict' = [verdict EXCEPT ![w] = v]
  /\ executions' = [executions EXCEPT ![wjob[w]] = @ + 1]
  /\ UNCHANGED task

SaveVerdict(w) ==
  /\ Advance(w, "completing", "reporting")
  /\ task' = [task EXCEPT ![wjob[w]] = verdict[w]]
  /\ UNCHANGED <<verdict, executions>>

(* UpdateJudgeResult succeeded and the handler returns nil.                *)
ReportResult(w) ==
  /\ wpc[w] = "reporting"
  /\ msg' = [msg EXCEPT ![wjob[w]] = IF @ = "active" THEN "acked" ELSE @]
  /\ Release(w)
  /\ NoFault /\ UNCHANGED retried

(* UpdateJudgeResult found no row to report to.                            *)
ReportFails(w) ==
  /\ wpc[w] = "reporting"
  /\ FailDelivery(w)
  /\ NoFault

(* A statement of ProcessTask fails, or the worker process dies.           *)
AbortDelivery(w) ==
  /\ wpc[w] # "idle"
  /\ FailDelivery(w)
  /\ Fault

(* Redis restarts without persistence: every message it held is gone.      *)
QueueLoss ==
  /\ msg' = [j \in Jobs |-> IF msg[j] \in {"ready", "active"} THEN "lost" ELSE msg[j]]
  /\ Fault /\ UNCHANGED <<dispatch, task, retried, wpc, wjob, verdict, executions>>

-----------------------------------------------------------------------------
DispatcherStep(j) ==
  CreateTask(j) \/ EnqueueTask(j) \/ DeleteTask(j) \/ MarkTaskQueued(j)

DispatcherFault(j) ==
  CreateTaskFails(j) \/ EnqueueTaskFails(j) \/ DeleteTaskFails(j)
    \/ MarkTaskQueuedFails(j) \/ DispatcherCrash(j)

ProcessTaskStep(w) ==
  LoadTask(w) \/ RejectTask(w) \/ SaveRunning(w) \/ RunSandbox(w)
    \/ SaveVerdict(w) \/ ReportResult(w) \/ ReportFails(w)

WorkerStep(w) == ProcessTaskStep(w) \/ \E j \in Jobs : TakeMessage(w, j)

JudgeNext ==
  \/ \E j \in Jobs : DispatcherStep(j) \/ DispatcherFault(j)
  \/ \E w \in Workers : WorkerStep(w) \/ AbortDelivery(w)
  \/ QueueLoss

JudgeSpec == JudgeInit /\ [][JudgeNext]_judgeVars

(* A request that has begun and a running worker keep going; nothing       *)
(* obliges a caller to start, nor a fault to happen.                       *)
JudgeFairness ==
  /\ \A j \in Jobs : WF_judgeVars(dispatch[j] # "idle" /\ DispatcherStep(j))
  /\ \A w \in Workers : WF_judgeVars(WorkerStep(w))

FairJudgeSpec == JudgeSpec /\ JudgeFairness

-----------------------------------------------------------------------------
(* Safety.                                                                 *)

(* Redelivery never runs a candidate's program a second time: however      *)
(* deliveries fail and repeat, the PENDING/QUEUED/RUNNING statuses guarded *)
(* by Task.MarkRunning let one delivery at most reach the sandbox.         *)
JudgedAtMostOnce == \A j \in Jobs : executions[j] <= 1

(* A submission whose CreateAndEnqueue reported an error, or never         *)
(* returned, is never judged, even when redis did take its message and the *)
(* row could not be deleted: the message of a row that never became QUEUED *)
(* is rejected by every delivery.                                          *)
FailedDispatchNeverJudged ==
  \A j \in Jobs : dispatch[j] \in {"failed", "crashed"} => executions[j] = 0

(* The queue forgets a message as handled only after the verdict is in the *)
(* task row.                                                               *)
AckedMeansJudged == \A j \in Jobs : msg[j] = "acked" => task[j] \in Verdicts

(* Whatever dispatchers, workers and the queue do to each other, the row   *)
(* shows its readers the lifecycle of internal/judge/task.go: in           *)
(* particular the dispatcher's late save of QUEUED never overwrites what a *)
(* worker wrote, and a verdict is never replaced.                          *)
RowLifecycle == Row!LifecycleSpec

-----------------------------------------------------------------------------
(* Why these hold: an inductive invariant.                                 *)

Holds(w, j) == wpc[w] # "idle" /\ wjob[w] = j

(* A job is in the hands of one worker at most, and only while its message *)
(* is out with that worker.                                                *)
Ownership ==
  /\ \A w \in Workers : wpc[w] = "idle" <=> wjob[w] = None
  /\ \A w \in Workers, j \in Jobs : Holds(w, j) => msg[j] \in {"active", "lost"}
  /\ \A v, w \in Workers, j \in Jobs : Holds(v, j) /\ Holds(w, j) => v = w

(* What the dispatcher's position says about the row and the message.      *)
DispatchAgrees ==
  \A j \in Jobs :
    /\ dispatch[j] \in {"idle", "created"} => msg[j] = "none"
    /\ dispatch[j] = "idle" => task[j] = Row!Absent
    /\ dispatch[j] \in {"created", "enqueued", "deleting", "crashed"} => task[j] = Row!Pending
    /\ dispatch[j] = "failed" => task[j] \in {Row!Absent, Row!Deleted, Row!Pending}

(* What a worker's position says about the row of its job.                 *)
WorkerAgrees ==
  \A w \in Workers :
    LET j == wjob[w] IN
    /\ wpc[w] = "starting"   => task[j] = Row!Queued
    /\ wpc[w] = "judging"    => task[j] = Row!Running /\ executions[j] = 0
    /\ wpc[w] = "completing" =>
         task[j] = Row!Running /\ verdict[w] \in Verdicts /\ executions[j] = 1
    /\ wpc[w] = "reporting"  => task[j] = verdict[w] /\ verdict[w] \in Verdicts

(* The sandbox has run only for rows that are RUNNING or carry a verdict,  *)
(* and once for each of the latter.                                        *)
ExecutionsAgree ==
  \A j \in Jobs :
    /\ executions[j] <= 1
    /\ executions[j] = 1 => task[j] \in {Row!Running} \cup Verdicts
    /\ task[j] \in Verdicts => executions[j] = 1

(* One worker per job, and rows, messages, callers and workers that agree. *)
(* Every safety property above follows from it.                            *)
JudgeInv ==
  /\ Ownership
  /\ DispatchAgrees
  /\ WorkerAgrees
  /\ ExecutionsAgree
  /\ AckedMeansJudged

-----------------------------------------------------------------------------
(* Liveness.                                                               *)

(* No message is delivered for ever: it ends handled, archived or lost,    *)
(* whatever its task row looks like.                                       *)
MessagesDrain ==
  \A j \in Jobs : msg[j] = "ready" ~> msg[j] \in {"acked", "archived", "lost"}

(* A job queued in row and in redis is judged, once faults have ceased.    *)
QueuedJobIsJudged ==
  \A j \in Jobs :
    (task[j] = Row!Queued /\ msg[j] = "ready" /\ faults = MaxFaults) ~> task[j] \in Verdicts

(* A judging that was cut short is retried until it gives a verdict.       *)
InterruptedJudgingIsRetried ==
  \A j \in Jobs : (task[j] = Row!Running /\ msg[j] # "lost") ~> task[j] \in Verdicts
=============================================================================
