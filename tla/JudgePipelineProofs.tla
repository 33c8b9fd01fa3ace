------------------------- MODULE JudgePipelineProofs -------------------------
(***************************************************************************)
(* JudgePipeline for any jobs, workers, verdicts, retry limit and number   *)
(* of faults: the inductive invariant, the safety properties it gives, and *)
(* the refinement of TaskLifecycle.                                        *)
(*                                                                         *)
(* Typing is not inductive alone: a worker that is not idle must be known  *)
(* to have a job before task[wjob[w]] can be typed, and that is part of    *)
(* Ownership.  So the two are carried together as IInv.                    *)
(***************************************************************************)
EXTENDS JudgePipeline, TLAPS

IInv == JudgeTypeOK /\ JudgeInv

(* No job has been submitted and no worker holds anything: every part of   *)
(* the invariant holds of the first state.                                 *)
LEMMA InitIInv == JudgeInit => IInv
BY JudgeAssumption
   DEF JudgeInit, IInv, JudgeTypeOK, JudgeInv, Ownership, Holds, DispatchAgrees,
       WorkerAgrees, ExecutionsAgree, AckedMeansJudged, DispatchStates, TaskStatuses,
       MessageStates, WorkerStates, Row!NonTerminal, Row!Absent

(* A caller's steps and faults touch the row and the message of its own    *)
(* job only, and a row it writes is still Absent or Pending: no worker     *)
(* position speaks of such a row.                                          *)
LEMMA DispatcherPreserves ==
  ASSUME IInv, NEW j \in Jobs, DispatcherStep(j) \/ DispatcherFault(j)
  PROVE  IInv'
<1> USE JudgeAssumption
    DEF IInv, JudgeTypeOK, JudgeInv, Ownership, Holds, DispatchAgrees, WorkerAgrees,
        ExecutionsAgree, AckedMeansJudged, DispatchStates, TaskStatuses, MessageStates,
        WorkerStates, Row!NonTerminal, Row!Absent, Row!Deleted, Row!Pending, Row!Queued,
        Row!Running, Dispatched, workerVars
<1>1. CASE CreateTask(j)
  BY <1>1 DEF CreateTask, NoFault
<1>2. CASE EnqueueTask(j)
  BY <1>2 DEF EnqueueTask, NoFault
<1>3. CASE DeleteTask(j)
  BY <1>3 DEF DeleteTask, NoFault
<1>4. CASE MarkTaskQueued(j)
  BY <1>4 DEF MarkTaskQueued, NoFault
<1>5. CASE CreateTaskFails(j)
  BY <1>5 DEF CreateTaskFails, Fault
<1>6. CASE EnqueueTaskFails(j)
  BY <1>6 DEF EnqueueTaskFails, Fault
<1>7. CASE DeleteTaskFails(j)
  BY <1>7 DEF DeleteTaskFails, Fault
<1>8. CASE MarkTaskQueuedFails(j)
  BY <1>8 DEF MarkTaskQueuedFails, Fault
<1>9. CASE DispatcherCrash(j)
  BY <1>9 DEF DispatcherCrash, Fault
<1>10. QED
  BY <1>1, <1>2, <1>3, <1>4, <1>5, <1>6, <1>7, <1>8, <1>9
     DEF DispatcherStep, DispatcherFault

(* A worker acts on the row and message of the one job it owns.            *)
LEMMA WorkerPreserves ==
  ASSUME IInv, NEW w \in Workers, WorkerStep(w) \/ AbortDelivery(w)
  PROVE  IInv'
<1> USE JudgeAssumption
    DEF IInv, JudgeTypeOK, JudgeInv, Ownership, Holds, DispatchAgrees, WorkerAgrees,
        ExecutionsAgree, AckedMeansJudged, DispatchStates, TaskStatuses, MessageStates,
        WorkerStates, Row!NonTerminal, Row!Absent, Row!Deleted, Row!Pending, Row!Queued,
        Row!Running
<1>1. ASSUME NEW j \in Jobs, TakeMessage(w, j)
      PROVE  IInv'
  BY <1>1 DEF TakeMessage, NoFault
<1>2. CASE LoadTask(w)
  BY <1>2 DEF LoadTask, Advance, CanMarkRunning, NoFault
<1>3. CASE RejectTask(w)
  BY <1>3 DEF RejectTask, FailDelivery, Release, NoFault
<1>4. CASE SaveRunning(w)
  BY <1>4 DEF SaveRunning, Advance, NoFault
<1>5. CASE RunSandbox(w)
  BY <1>5 DEF RunSandbox, Advance, NoFault
<1>6. CASE SaveVerdict(w)
  BY <1>6 DEF SaveVerdict, Advance, NoFault
<1>7. CASE ReportResult(w)
  BY <1>7 DEF ReportResult, Release, NoFault
<1>8. CASE AbortDelivery(w)
  BY <1>8 DEF AbortDelivery, FailDelivery, Release, Fault
<1>9. CASE ReportFails(w)
  BY <1>9 DEF ReportFails, FailDelivery, Release, NoFault
<1>10. QED
  BY <1>1, <1>2, <1>3, <1>4, <1>5, <1>6, <1>7, <1>8, <1>9 DEF WorkerStep, ProcessTaskStep

(* A Redis restart empties the queue and touches no row: a worker that held *)
(* a message goes on, and no other worker can be given that message.       *)
LEMMA QueueLossPreserves == ASSUME IInv, QueueLoss PROVE IInv'
BY JudgeAssumption
   DEF QueueLoss, Fault, IInv, JudgeTypeOK, JudgeInv, Ownership, Holds, DispatchAgrees,
       WorkerAgrees, ExecutionsAgree, AckedMeansJudged, MessageStates

(* So the invariant survives every step of callers, workers and queue.     *)
LEMMA StepIInv == IInv /\ [JudgeNext]_judgeVars => IInv'
<1> SUFFICES ASSUME IInv, [JudgeNext]_judgeVars
             PROVE  IInv'
  OBVIOUS
<1>1. CASE UNCHANGED judgeVars
  BY <1>1
     DEF judgeVars, IInv, JudgeTypeOK, JudgeInv, Ownership, Holds, DispatchAgrees,
         WorkerAgrees, ExecutionsAgree, AckedMeansJudged
<1>2. CASE JudgeNext
  BY <1>2, DispatcherPreserves, WorkerPreserves, QueueLossPreserves DEF JudgeNext
<1>3. QED
  BY <1>1, <1>2

(* Every reachable state of the judge is well typed and satisfies the      *)
(* inductive invariant.                                                    *)
THEOREM JudgeInvariant == JudgeSpec => [](JudgeTypeOK /\ JudgeInv)
<1>1. IInv => JudgeTypeOK /\ JudgeInv
  BY DEF IInv
<1>2. QED
  BY <1>1, InitIInv, StepIInv, PTL DEF JudgeSpec

(* The judge's state is always well typed; in particular retried never     *)
(* exceeds asynq's MaxRetry.                                               *)
THEOREM JudgeTyping == JudgeSpec => []JudgeTypeOK
BY JudgeInvariant, PTL

(* No candidate's program is run twice, for any number of workers,         *)
(* redeliveries and faults.                                                *)
THEOREM AtMostOneExecution == JudgeSpec => []JudgedAtMostOnce
<1>1. JudgeInv => JudgedAtMostOnce
  BY DEF JudgeInv, ExecutionsAgree, JudgedAtMostOnce
<1>2. QED
  BY <1>1, JudgeInvariant, PTL

(* A CreateAndEnqueue that failed or died leaves a job no worker judges.   *)
THEOREM FailedDispatchIsInert == JudgeSpec => []FailedDispatchNeverJudged
<1>1. JudgeTypeOK /\ JudgeInv => FailedDispatchNeverJudged
  BY JudgeAssumption
     DEF JudgeTypeOK, JudgeInv, ExecutionsAgree, DispatchAgrees, FailedDispatchNeverJudged,
         Row!NonTerminal, Row!Absent, Row!Deleted, Row!Pending, Row!Running
<1>2. QED
  BY <1>1, JudgeInvariant, PTL

(* A message asynq drops as handled has its verdict in the task row.       *)
THEOREM AckAfterVerdict == JudgeSpec => []AckedMeansJudged
<1>1. JudgeInv => AckedMeansJudged
  BY DEF JudgeInv
<1>2. QED
  BY <1>1, JudgeInvariant, PTL

-----------------------------------------------------------------------------
(* Refinement: every step is a step of the row's lifecycle or leaves the   *)
(* row alone.                                                              *)

(* A caller creates, withdraws or queues the row of its job: NewTask,      *)
(* Delete and MarkQueued of task.go.                                       *)
LEMMA DispatcherRefines ==
  ASSUME IInv, NEW j \in Jobs, DispatcherStep(j) \/ DispatcherFault(j)
  PROVE  [Row!LifecycleNext]_task
<1> USE DEF IInv, JudgeInv, DispatchAgrees, Dispatched, Row!LifecycleNext, Row!Move
<1>1. CASE CreateTask(j)
  <2>1. Row!Create(j)
    BY <1>1 DEF CreateTask, Row!Create
  <2>2. QED
    BY <2>1
<1>2. CASE DeleteTask(j)
  <2>1. Row!Withdraw(j)
    BY <1>2 DEF DeleteTask, Row!Withdraw
  <2>2. QED
    BY <2>1
<1>3. CASE MarkTaskQueued(j)
  <2>1. Row!Enqueue(j)
    BY <1>3 DEF MarkTaskQueued, Row!Enqueue
  <2>2. QED
    BY <2>1
<1>4. CASE EnqueueTask(j) \/ DispatcherFault(j)
  BY <1>4 DEF EnqueueTask, DispatcherFault, CreateTaskFails, EnqueueTaskFails,
       DeleteTaskFails, MarkTaskQueuedFails, DispatcherCrash
<1>5. QED
  BY <1>1, <1>2, <1>3, <1>4 DEF DispatcherStep

(* A worker starts a queued row or finishes a running one: MarkRunning and *)
(* Complete of task.go.                                                    *)
LEMMA WorkerRefines ==
  ASSUME IInv, NEW w \in Workers, WorkerStep(w) \/ AbortDelivery(w)
  PROVE  [Row!LifecycleNext]_task
<1>1. CASE SaveRunning(w)
  <2>1. wjob[w] \in Jobs /\ task[wjob[w]] = Row!Queued
    BY <1>1 DEF SaveRunning, Advance, IInv, JudgeTypeOK, JudgeInv, Ownership, WorkerAgrees
  <2>2. Row!Start(wjob[w])
    BY <1>1, <2>1 DEF SaveRunning, Row!Start, Row!Move
  <2>3. QED
    BY <2>1, <2>2 DEF Row!LifecycleNext
<1>2. CASE SaveVerdict(w)
  <2>1. wjob[w] \in Jobs /\ task[wjob[w]] = Row!Running /\ verdict[w] \in Verdicts
    BY <1>2 DEF SaveVerdict, Advance, IInv, JudgeTypeOK, JudgeInv, Ownership, WorkerAgrees
  <2>2. Row!Finish(wjob[w])
    BY <1>2, <2>1 DEF SaveVerdict, Row!Finish, Row!Move
  <2>3. QED
    BY <2>1, <2>2 DEF Row!LifecycleNext
<1>3. ASSUME ~SaveRunning(w), ~SaveVerdict(w)
      PROVE  UNCHANGED task
  BY <1>3 DEF WorkerStep, ProcessTaskStep, TakeMessage, LoadTask, RejectTask, RunSandbox,
       ReportResult, ReportFails, AbortDelivery, FailDelivery, Release
<1>4. QED
  BY <1>1, <1>2, <1>3

(* So a step of the pipeline is one of the lifecycle, if the invariant     *)
(* holds before it.                                                        *)
LEMMA StepRefines == IInv /\ [JudgeNext]_judgeVars => [Row!LifecycleNext]_task
<1> SUFFICES ASSUME IInv, [JudgeNext]_judgeVars
             PROVE  [Row!LifecycleNext]_task
  OBVIOUS
<1>1. CASE UNCHANGED judgeVars \/ QueueLoss
  BY <1>1 DEF judgeVars, QueueLoss
<1>2. CASE ~QueueLoss /\ JudgeNext
  BY <1>2, DispatcherRefines, WorkerRefines DEF JudgeNext
<1>3. QED
  BY <1>1, <1>2

(* The task row only ever moves along the lifecycle of task.go, whatever   *)
(* the interleaving: the pipeline implements TaskLifecycle.                *)
THEOREM PipelineImplementsLifecycle == JudgeSpec => RowLifecycle
<1>1. JudgeInit => Row!LifecycleInit
  BY DEF JudgeInit, Row!LifecycleInit
<1>2. JudgeTypeOK /\ JudgeInv => IInv
  BY DEF IInv
<1>3. QED
  BY <1>1, <1>2, StepRefines, JudgeInvariant, PTL DEF JudgeSpec, RowLifecycle, Row!LifecycleSpec
=============================================================================
