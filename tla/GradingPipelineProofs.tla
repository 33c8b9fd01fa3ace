------------------------ MODULE GradingPipelineProofs ------------------------
(***************************************************************************)
(* GradingPipeline for any graders, questions, jobs and workers.  Its      *)
(* steps are steps of the judge or leave it alone, so that the judge's     *)
(* invariant holds here too; on it rests what graders, rows and reports    *)
(* have to do with each other (GradingInv).                                *)
(***************************************************************************)
EXTENDS GradingPipeline, JudgePipelineProofs

-----------------------------------------------------------------------------
(* The judge inside.                                                       *)

(* Whatever graders, callers and reports do, the judge does a step of its  *)
(* own or none.                                                            *)
LEMMA StepOfJudge == [Next]_vars => [JudgeNext]_judgeVars
<1> SUFFICES ASSUME [Next]_vars PROVE [JudgeNext]_judgeVars
  OBVIOUS
<1>1. ASSUME NEW g \in Graders, GraderStep(g) \/ AbortGrading(g)
      PROVE  UNCHANGED judgeVars
  BY <1>1 DEF GraderStep, AbortGrading, BeginGrading, CreateResult, DispatchReturns,
       MarkSubmissionQueued, RecordQuestion, FinishGrading, GradeQuestion, GraderMoves
<1>2. ASSUME NEW j \in DirectJobs, StoreSubmission(j) \/ FinishSubmission(j)
      PROVE  UNCHANGED judgeVars
  BY <1>2 DEF StoreSubmission, FinishSubmission, DirectMoves
<1>3. ASSUME NEW j \in Jobs, Dispatch(j)
      PROVE  JudgeNext
  BY <1>3 DEF Dispatch, JudgeNext
<1>4. ASSUME NEW w \in Workers, Judge(w) \/ BeginReport(w) \/ Disturb(w)
      PROVE  JudgeNext
  BY <1>4 DEF Judge, BeginReport, Disturb, JudgeNext, WorkerStep, ProcessTaskStep
<1>5. ASSUME NEW w \in Workers, ReportStep(w)
      PROVE  JudgeNext \/ UNCHANGED judgeVars
  BY <1>5 DEF ReportStep, ReportSubmission, ReportQuestion, ReportUnplaced, ReportRead,
       ReportWrite, JudgeNext, WorkerStep, ProcessTaskStep
<1>6. CASE LoseQueue
  BY <1>6 DEF LoseQueue, JudgeNext
<1>7. CASE UNCHANGED vars
  BY <1>7 DEF vars
<1>8. QED
  BY <1>1, <1>2, <1>3, <1>4, <1>5, <1>6, <1>7 DEF Next

(* The grading pipeline is a judge with callers and readers: all that is   *)
(* proved of JudgePipeline holds of its part of the state.                 *)
THEOREM GradingImplementsJudge == Spec => JudgeSpec
<1>1. GradingInit => JudgeInit
  BY DEF GradingInit
<1>2. QED
  BY <1>1, StepOfJudge, PTL DEF Spec, JudgeSpec

LEMMA JudgeInside == Spec => []IInv
<1>1. JudgeTypeOK /\ JudgeInv => IInv
  BY DEF IInv
<1>2. QED
  BY <1>1, GradingImplementsJudge, JudgeInvariant, PTL

(* A verdict is in the task row for good, and comes of one execution.      *)
LEMMA VerdictStays ==
  ASSUME IInv, IInv', [Next]_vars, NEW j \in Jobs, task[j] \in Verdicts
  PROVE  task'[j] = task[j] /\ executions'[j] = 1
<1>1. [Row!LifecycleNext]_task
  BY StepOfJudge, StepRefines
<1>2. task \in [Jobs -> TaskStatuses] /\ Verdicts \cap Row!NonTerminal = {}
  BY JudgeAssumption DEF IInv, JudgeTypeOK
<1>3. ASSUME NEW k \in Jobs, NEW from \in Row!NonTerminal, NEW to, Row!Move(k, from, to)
      PROVE  task'[j] = task[j]
  BY <1>2, <1>3 DEF Row!Move
<1>4. task'[j] = task[j]
  <2>1. CASE UNCHANGED task
    BY <2>1
  <2>2. CASE Row!LifecycleNext
    BY <2>2, <1>3 DEF Row!LifecycleNext, Row!Create, Row!Withdraw, Row!Enqueue, Row!Start,
         Row!Finish, Row!NonTerminal, Row!Absent, Row!Pending, Row!Queued, Row!Running
  <2>3. QED
    BY <1>1, <2>1, <2>2
<1>5. QED
  BY <1>4 DEF IInv, JudgeInv, ExecutionsAgree
-----------------------------------------------------------------------------
(* The invariant.                                                          *)

Active(g) == gpc[g] \in {"grading", "dispatching", "marking", "recording"}

(* What a grader may record for a question.                                *)
Fits(q, status) ==
  /\ q \in Objective => status = "MARKED"
  /\ q \in Essays    => status = "MANUAL_REQUIRED"
  /\ q \in Coded     => status \in {"UNANSWERED", "JUDGING"} \cup Verdicts
  /\ status = "UNANSWERED" => dispatch[q] \in {"idle", "failed"}

(* What a grader holds is one of the questions it has not recorded, with   *)
(* an outcome of its kind.                                                 *)
GraderAgrees ==
  \A g \in Graders :
    /\ gpc[g] \in {"idle", "creating", "grading"} => gq[g] = None
    /\ gpc[g] \in {"dispatching", "marking", "recording"} => gq[g] \in todo[g]
    /\ gpc[g] \in {"dispatching", "marking"} => gq[g] \in Coded
    /\ gpc[g] = "marking" => outcome[g] = "JUDGING"
    /\ gpc[g] = "recording" => Fits(gq[g], outcome[g]) /\ outcome[g] \notin Verdicts

(* A row is of its question's kind.                                        *)
RowsAgree == \A q \in Questions : qstatus[q] # "NONE" => Fits(q, qstatus[q])

(* One grader at work; it has recorded all but what it has to do, and of   *)
(* the latter dispatched what it holds at most.                            *)
SoleAgrees ==
  \A g \in Graders :
    Active(g) =>
      /\ rstatus # "NONE"
      /\ \A h \in Graders : Active(h) => h = g
      /\ \A q \in Questions : q \in todo[g] <=> qstatus[q] = "NONE"
      /\ \A q \in todo[g] \ {gq[g]} : q \in Coded => dispatch[q] = "idle"

(* Before the result row there is nothing.                                 *)
NothingBefore ==
  rstatus = "NONE" =>
    /\ \A q \in Questions : qstatus[q] = "NONE"
    /\ \A q \in Coded : dispatch[q] = "idle"
    /\ \A g \in Graders : gpc[g] # "done"

(* A report is of a worker that has saved its verdict, and counts rows     *)
(* with a score only.                                                      *)
ReportsAgree ==
  \A w \in Workers :
    /\ upc[w] # "none" => wpc[w] = "reporting"
    /\ \A q \in fresh[w].counted : qstatus[q] \in Scored

Consistent ==
  /\ GradingTypeOK /\ GraderAgrees /\ RowsAgree /\ SoleAgrees /\ NothingBefore
  /\ ReportsAgree /\ ScoreNeverOverstated

GradingInv == Consistent /\ VerdictsAgree

(* While nothing disturbs it: the grader has no verdict among its rows and *)
(* knows whether one is awaited; a single report is between its row and    *)
(* its summary, not while a grader is at work, and has read the rows that  *)
(* are there.                                                              *)
Awaited(g) ==
  (\E q \in Questions : qstatus[q] = "JUDGING") \/ (gpc[g] = "recording" /\ outcome[g] = "JUDGING")

UndisturbedAgrees ==
  clean =>
    /\ \A g \in Graders, w \in Workers : Active(g) => ~Reporting(w)
    /\ \A g \in Graders : Active(g) =>
         /\ \A q \in Questions : qstatus[q] \notin Verdicts
         /\ judging[g] <=> Awaited(g)
    /\ \A v, w \in Workers : Reporting(v) /\ Reporting(w) => v = w
    /\ \A w \in Workers : upc[w] = "write" => fresh[w] = RowsSummary

(* Before its work a grader awaits nothing, and no report has a row before *)
(* there is a result.                                                      *)
SummaryInv ==
  /\ UndisturbedAgrees /\ SerialSummaryExact
  /\ \A g \in Graders : gpc[g] \in {"idle", "creating"} => ~judging[g]
  /\ \A w \in Workers : Reporting(w) => rstatus # "NONE"

(* No verdict is written to a row.                                         *)
NoNewVerdict == \A q \in Coded : qstatus'[q] \in Verdicts => qstatus'[q] = qstatus[q]

-----------------------------------------------------------------------------
(* Steps of the graders.                                                   *)

(* Verdicts that stay where they are are still those of their tasks.       *)
LEMMA VerdictsKept ==
  ASSUME IInv, IInv', [Next]_vars, VerdictsAgree, NoNewVerdict
  PROVE  VerdictsAgree'
<1>1. ASSUME NEW q \in Coded, qstatus'[q] \in Verdicts
      PROVE  task'[q] = qstatus'[q] /\ executions'[q] = 1
  <2>1. q \in Jobs /\ qstatus'[q] = qstatus[q] /\ task[q] = qstatus[q]
    BY <1>1, GradingAssumption DEF VerdictsAgree, NoNewVerdict
  <2>2. QED
    BY <1>1, <2>1, VerdictStays
<1>2. QED
  BY <1>1 DEF VerdictsAgree

(* A grader's step keeps rows and graders consistent.                      *)
LEMMA GraderKeeps ==
  ASSUME Consistent, NEW g \in Graders, GraderStep(g) \/ AbortGrading(g)
  PROVE  Consistent' /\ NoNewVerdict
<1> USE GradingAssumption
    DEF Consistent, NoNewVerdict, GradingTypeOK, GraderAgrees, Active, Fits, RowsAgree, SoleAgrees, NothingBefore,
        ReportsAgree, ScoreNeverOverstated, GraderStates, RowStatuses, ResultStatuses, SubStatuses,
        Settled, Scored, Questions, GraderMoves, GradeFault, NoGradeFault, judgeVars
<1>1. CASE BeginGrading(g)
  BY <1>1 DEF BeginGrading
<1>2. CASE CreateResult(g)
  BY <1>2 DEF CreateResult
<1>3. CASE DispatchReturns(g)
  BY <1>3 DEF DispatchReturns
<1>4. CASE MarkSubmissionQueued(g)
  BY <1>4 DEF MarkSubmissionQueued
<1>5. CASE RecordQuestion(g)
  BY <1>5 DEF RecordQuestion
<1>6. CASE FinishGrading(g)
  BY <1>6 DEF FinishGrading, SummaryStatus
<1>7. ASSUME NEW q \in Questions, GradeQuestion(g, q)
      PROVE  Consistent' /\ NoNewVerdict
  BY <1>7 DEF GradeQuestion
<1>8. CASE AbortGrading(g)
  BY <1>8 DEF AbortGrading
<1>9. QED
  BY <1>1, <1>2, <1>3, <1>4, <1>5, <1>6, <1>7, <1>8 DEF GraderStep

-----------------------------------------------------------------------------
(* Steps of callers, dispatchers, workers and reports.                     *)

(* A free run concerns no question.                                        *)
LEMMA DirectKeeps ==
  ASSUME Consistent, NEW j \in DirectJobs, StoreSubmission(j) \/ FinishSubmission(j)
  PROVE  Consistent' /\ NoNewVerdict
BY GradingAssumption
   DEF Consistent, NoNewVerdict, GradingTypeOK, GraderAgrees, Active, Fits, RowsAgree, SoleAgrees,
       NothingBefore, ReportsAgree, ScoreNeverOverstated, DirectStates, SubStatuses, DirectJobs,
       StoreSubmission, FinishSubmission, DirectMoves, GradeFault, NoGradeFault, judgeVars

(* A coded question is dispatched while a grader holds it, before it has a *)
(* row, and no other way.                                                  *)
LEMMA DispatchKeeps ==
  ASSUME IInv, Consistent, NEW j \in Jobs, Dispatch(j)
  PROVE  Consistent' /\ NoNewVerdict
<1>1. \A q \in Jobs \ {j} : dispatch'[q] = dispatch[q]
  BY DEF Dispatch, DispatcherStep, DispatcherFault, CreateTask, EnqueueTask, DeleteTask, MarkTaskQueued,
     CreateTaskFails, EnqueueTaskFails, DeleteTaskFails, MarkTaskQueuedFails, DispatcherCrash, Dispatched,
     IInv, JudgeTypeOK
<1>2. UNCHANGED <<gradingRows, sub, qstatus, rstatus, counted, upc, fresh, wpc>> /\ clean' \in BOOLEAN
  BY DEF Dispatch, DispatcherStep, DispatcherFault, CreateTask, EnqueueTask, DeleteTask, MarkTaskQueued,
     CreateTaskFails, EnqueueTaskFails, DeleteTaskFails, MarkTaskQueuedFails, DispatcherCrash, Dispatched,
     workerVars, Consistent, GradingTypeOK
<1>3. CASE j \in DirectJobs
  BY <1>1, <1>2, <1>3, GradingAssumption
     DEF Consistent, NoNewVerdict, GradingTypeOK, GraderAgrees, Active, Fits, RowsAgree, SoleAgrees,
         NothingBefore, ReportsAgree, ScoreNeverOverstated, DirectJobs, gradingRows, Questions
<1>4. CASE j \in Coded
  <2>1. PICK g \in Graders : gpc[g] = "dispatching" /\ gq[g] = j
    BY <1>4 DEF Dispatch, CallerWaits, DirectJobs
  <2>2. /\ j \in todo[g] /\ j \in Questions /\ qstatus[j] = "NONE" /\ rstatus # "NONE"
        /\ \A h \in Graders : Active(h) => h = g
    BY <2>1, <1>4 DEF Consistent, GraderAgrees, SoleAgrees, Active, Questions
  <2>3. QED
    BY <1>1, <1>2, <2>1, <2>2, GradingAssumption
       DEF Consistent, NoNewVerdict, GradingTypeOK, GraderAgrees, Active, Fits, RowsAgree, SoleAgrees,
           NothingBefore, ReportsAgree, ScoreNeverOverstated, gradingRows, Questions
<1>5. QED
  BY <1>3, <1>4 DEF DirectJobs

(* Steps of a worker that writes no row.                                   *)
LEMMA JudgeKeeps ==
  ASSUME IInv, Consistent, NEW w \in Workers, Judge(w) \/ BeginReport(w)
  PROVE  Consistent' /\ NoNewVerdict
<1> USE DEF Consistent, NoNewVerdict, GradingTypeOK, GraderAgrees, Active, Fits, RowsAgree, SoleAgrees,
         NothingBefore, ReportsAgree, ScoreNeverOverstated, ReportStates, gradingRows, gradingVars,
         IInv, JudgeTypeOK, Advance
<1>1. CASE Judge(w)
  BY <1>1 DEF Judge, LoadTask, SaveRunning, RunSandbox, TakeMessage
<1>2. CASE BeginReport(w)
  BY <1>2 DEF BeginReport, SaveVerdict
<1>3. QED
  BY <1>1, <1>2

(* A delivery or the queue is lost, and with a delivery its report.        *)
LEMMA DisturbKeeps ==
  ASSUME IInv, Consistent, LoseQueue \/ \E w \in Workers : Disturb(w)
  PROVE  Consistent' /\ NoNewVerdict
<1> USE DEF Consistent, NoNewVerdict, GradingTypeOK, GraderAgrees, Active, Fits, RowsAgree, SoleAgrees,
         NothingBefore, ReportsAgree, ScoreNeverOverstated, ReportStates, gradingRows
<1>1. CASE LoseQueue
  BY <1>1 DEF LoseQueue, QueueLoss
<1>2. ASSUME NEW w \in Workers, Disturb(w)
      PROVE  Consistent' /\ NoNewVerdict
  <2>1. /\ wpc' = [wpc EXCEPT ![w] = "idle"] /\ upc' = [upc EXCEPT ![w] = "none"]
        /\ fresh' = [fresh EXCEPT ![w] = NoSummary] /\ clean' = FALSE
        /\ UNCHANGED <<gradingRows, sub, qstatus, rstatus, counted, dispatch>>
    BY <1>2 DEF Disturb, RejectTask, AbortDelivery, FailDelivery, Release
  <2>2. NoSummary \in Summaries /\ NoSummary.counted = {}
    BY DEF NoSummary, Summaries, ResultStatuses
  <2>3. GradingTypeOK'
    BY <2>1, <2>2
  <2>4. ASSUME NEW v \in Workers
        PROVE  /\ upc'[v] # "none" => wpc'[v] = "reporting"
               /\ \A q \in fresh'[v].counted : qstatus'[q] \in Scored
    BY <2>1, <2>2 DEF IInv, JudgeTypeOK
  <2>5. QED
    BY <2>1, <2>3, <2>4
<1>3. QED
  BY <1>1, <1>2

(* A worker reports a verdict that is in the task row, to a row that waits *)
(* for it or has it already: one of an answer that was never queued does   *)
(* not get that far.                                                       *)
LEMMA ReportPlaced ==
  ASSUME IInv, GradingInv, NEW w \in Workers, ReportQuestion(w)
  PROVE  LET q == wjob[w] IN
         /\ q \in Coded /\ q \in Questions /\ verdict[w] \in Verdicts
         /\ task[q] = verdict[w] /\ executions[q] = 1 /\ qstatus[q] \in {"JUDGING", verdict[w]}
<1>1. wpc[w] = "reporting"
  BY DEF ReportQuestion, ReportMoves, GradingInv, Consistent, ReportsAgree
<1>2. wjob[w] \in Jobs /\ wjob[w] \in Questions /\ qstatus[wjob[w]] # "NONE"
  BY <1>1, GradingAssumption, JudgeAssumption
     DEF ReportQuestion, HasRow, IInv, JudgeInv, Ownership, JudgeTypeOK
<1>3. wjob[w] \in Coded
  BY <1>2, GradingAssumption DEF Questions
<1>4. verdict[w] \in Verdicts /\ task[wjob[w]] = verdict[w] /\ executions[wjob[w]] = 1
  BY <1>1, <1>2 DEF IInv, JudgeInv, WorkerAgrees, ExecutionsAgree
<1>5. dispatch[wjob[w]] \notin {"idle", "failed"}
  BY <1>2, <1>4, JudgeAssumption
     DEF IInv, JudgeInv, DispatchAgrees, Row!NonTerminal, Row!Absent, Row!Deleted, Row!Pending
<1>6. qstatus[wjob[w]] \in {"JUDGING"} \cup Verdicts
  BY <1>2, <1>3, <1>5 DEF GradingInv, Consistent, RowsAgree, Fits
<1>7. QED
  BY <1>2, <1>3, <1>4, <1>6 DEF GradingInv, VerdictsAgree

(* A report, statement by statement.                                       *)
LEMMA ReportKeeps ==
  ASSUME IInv, IInv', [Next]_vars, GradingInv, NEW w \in Workers, ReportStep(w)
  PROVE  GradingInv'
<1> USE DEF Consistent, GradingTypeOK, GraderAgrees, Active, Fits, RowsAgree, SoleAgrees,
            NothingBefore, ReportsAgree, ScoreNeverOverstated, ReportStates, gradingRows, judgeVars,
            ReportMoves
<1>1. Consistent /\ VerdictsAgree
  BY DEF GradingInv
<1>2. CASE ReportSubmission(w)
  <2>1. verdict[w] \in SubStatuses
    BY <1>1, <1>2 DEF ReportSubmission, SubStatuses, IInv, JudgeInv, WorkerAgrees
  <2>2. /\ sub' = [sub EXCEPT ![wjob[w]] = verdict[w]] /\ upc' = [upc EXCEPT ![w] = "question"]
        /\ upc[w] = "submission"
        /\ UNCHANGED <<judgeVars, gradingRows, qstatus, rstatus, counted, fresh, clean>>
    BY <1>2 DEF ReportSubmission
  <2>3. GradingTypeOK'
    BY <1>1, <2>1, <2>2
  <2>4. Consistent' /\ NoNewVerdict
    BY <1>1, <2>2, <2>3 DEF NoNewVerdict
  <2>5. QED
    BY <1>1, <2>4, VerdictsKept DEF GradingInv
<1>3. CASE ReportQuestion(w)
  <2>1. DEFINE q == wjob[w]
  <2>2. /\ q \in Coded /\ q \in Questions /\ verdict[w] \in Verdicts
        /\ task[q] = verdict[w] /\ executions[q] = 1 /\ qstatus[q] \in {"JUDGING", verdict[w]}
    BY <1>3, ReportPlaced
  <2>3. /\ qstatus' = [qstatus EXCEPT ![q] = verdict[w]] /\ upc' = [upc EXCEPT ![w] = "read"]
        /\ clean' \in BOOLEAN /\ UNCHANGED <<judgeVars, gradingRows, sub, rstatus, counted, fresh>>
    BY <1>1, <1>3 DEF ReportQuestion
  <2>. HIDE DEF q
  <2>4. verdict[w] \in RowStatuses /\ verdict[w] \in Scored /\ verdict[w] \notin {"NONE", "UNANSWERED"}
    BY <2>2, GradingAssumption DEF RowStatuses, Settled, Scored
  <2>5. GradingTypeOK' /\ GraderAgrees' /\ NothingBefore'
    BY <1>1, <2>2, <2>3, <2>4
  <2>6. RowsAgree' /\ SoleAgrees'
    BY <1>1, <2>2, <2>3, <2>4, GradingAssumption DEF Questions
  <2>7. \A r \in Questions : qstatus[r] \in Scored => qstatus'[r] \in Scored
    BY <1>1, <2>2, <2>3, <2>4
  <2>8. ReportsAgree' /\ ScoreNeverOverstated'
    BY <1>1, <1>3, <2>3, <2>7 DEF Summaries, ReportQuestion
  <2>9. VerdictsAgree'
    BY <1>1, <2>2, <2>3, GradingAssumption DEF VerdictsAgree, Questions
  <2>10. QED
    BY <2>5, <2>6, <2>8, <2>9 DEF GradingInv
<1>4. CASE ReportUnplaced(w)
  <2>1. /\ wpc' = [wpc EXCEPT ![w] = "idle"] /\ upc' = [upc EXCEPT ![w] = "none"] /\ clean' = FALSE
        /\ UNCHANGED <<gradingRows, sub, qstatus, rstatus, counted, fresh, dispatch>>
    BY <1>4 DEF ReportUnplaced, ReportFails, FailDelivery, Release
  <2>2. GradingTypeOK'
    BY <1>1, <2>1
  <2>3. Consistent' /\ NoNewVerdict
    BY <1>1, <2>1, <2>2 DEF NoNewVerdict, IInv, JudgeTypeOK
  <2>4. QED
    BY <1>1, <2>3, VerdictsKept DEF GradingInv
<1>5. CASE ReportRead(w)
  <2>1. RowsSummary \in Summaries /\ \A q \in RowsSummary.counted : qstatus[q] \in Scored
    BY DEF RowsSummary, Summaries, SummaryStatus, ResultStatuses
  <2>2. Consistent' /\ NoNewVerdict
    BY <1>1, <1>5, <2>1 DEF ReportRead, NoNewVerdict
  <2>3. QED
    BY <1>1, <2>2, VerdictsKept DEF GradingInv
<1>6. CASE ReportWrite(w)
  <2>1. NoSummary \in Summaries /\ NoSummary.counted = {}
    BY DEF NoSummary, Summaries, ResultStatuses
  <2>2. fresh[w] \in Summaries
    BY <1>1
  <2>3. /\ rstatus' \in ResultStatuses /\ counted' \in SUBSET Questions
        /\ \A q \in counted' : qstatus[q] \in Scored
    BY <1>1, <1>6, <2>2 DEF ReportWrite, Summaries
  <2>4. /\ wpc' = [wpc EXCEPT ![w] = "idle"] /\ upc' = [upc EXCEPT ![w] = "none"]
        /\ fresh' = [fresh EXCEPT ![w] = NoSummary]
        /\ UNCHANGED <<gradingRows, sub, qstatus, clean, dispatch>>
    BY <1>6 DEF ReportWrite, ReportResult, Release
  <2>5. rstatus # "NONE" \/ rstatus' # "NONE"
    BY <2>3 DEF ResultStatuses
  <2>6. GradingTypeOK' /\ GraderAgrees' /\ RowsAgree' /\ SoleAgrees' /\ NothingBefore'
    BY <1>1, <2>1, <2>3, <2>4 DEF ResultStatuses
  <2>7. ReportsAgree' /\ ScoreNeverOverstated'
    BY <1>1, <2>1, <2>3, <2>4 DEF IInv, JudgeTypeOK
  <2>8. QED
    BY <1>1, <2>4, <2>6, <2>7, VerdictsKept DEF GradingInv, NoNewVerdict
<1>7. QED
  BY <1>2, <1>3, <1>4, <1>5, <1>6 DEF ReportStep

-----------------------------------------------------------------------------
(* The invariant holds.                                                    *)

LEMMA InitGradingInv == GradingInit => GradingInv
<1> SUFFICES ASSUME GradingInit PROVE GradingInv
  OBVIOUS
<1> USE GradingAssumption DEF GradingInit
<1>1. GradingTypeOK
  <2>1. NoSummary \in Summaries /\ "NONE" \in RowStatuses /\ "NONE" \in SubStatuses
    BY DEF NoSummary, Summaries, ResultStatuses, RowStatuses, SubStatuses
  <2>2. QED
    BY <2>1 DEF GradingTypeOK, GraderStates, DirectStates, ReportStates
<1>2. GraderAgrees /\ RowsAgree /\ SoleAgrees /\ NothingBefore
  BY DEF GraderAgrees, RowsAgree, SoleAgrees, NothingBefore, Active, JudgeInit
<1>3. ReportsAgree /\ ScoreNeverOverstated
  BY DEF ReportsAgree, ScoreNeverOverstated, NoSummary
<1>4. VerdictsAgree
  BY DEF VerdictsAgree, Questions
<1>5. QED
  BY <1>1, <1>2, <1>3, <1>4 DEF GradingInv, Consistent

LEMMA StepGradingInv == IInv /\ IInv' /\ GradingInv /\ [Next]_vars => GradingInv'
<1> SUFFICES ASSUME IInv, IInv', GradingInv, [Next]_vars PROVE GradingInv'
  OBVIOUS
<1>1. Consistent /\ VerdictsAgree
  BY DEF GradingInv
<1>2. ASSUME NEW w \in Workers, ReportStep(w)
      PROVE  GradingInv'
  BY <1>2, ReportKeeps
<1>3. CASE UNCHANGED vars
  BY <1>3
     DEF vars, gradingVars, judgeVars, GradingInv, Consistent, GradingTypeOK, GraderAgrees, Active, Fits,
         RowsAgree, SoleAgrees, NothingBefore, ReportsAgree, ScoreNeverOverstated, VerdictsAgree
<1>4. ASSUME Next, \A w \in Workers : ~ReportStep(w)
      PROVE  Consistent' /\ NoNewVerdict
  BY <1>1, <1>4, GraderKeeps, DirectKeeps, DispatchKeeps, JudgeKeeps, DisturbKeeps DEF Next
<1>5. QED
  BY <1>1, <1>2, <1>3, <1>4, VerdictsKept DEF GradingInv

-----------------------------------------------------------------------------
(* Summaries.                                                              *)

(* A summary is one of the rows: while they stay it stays.                 *)
LEMMA SameSummary == qstatus' = qstatus => RowsSummary' = RowsSummary
BY DEF RowsSummary

(* The closing summary of a grader that nothing disturbed is that of the   *)
(* rows it has recorded.                                                   *)
LEMMA ClosingSummary ==
  ASSUME GradingInv, SummaryInv, clean, NEW g \in Graders, gpc[g] = "grading", todo[g] = {}
  PROVE  RowsSummary = [status |-> SummaryStatus(judging[g], Essays # {}), counted |-> Objective]
<1>0. Active(g) /\ judging[g] \in BOOLEAN
  BY DEF Active, GradingInv, Consistent, GradingTypeOK
<1>1. \A q \in Questions : Fits(q, qstatus[q]) /\ qstatus[q] \notin Verdicts
  <2>1. \A q \in Questions : qstatus[q] # "NONE"
    BY <1>0 DEF GradingInv, Consistent, SoleAgrees
  <2>2. \A q \in Questions : Fits(q, qstatus[q])
    BY <2>1 DEF GradingInv, Consistent, RowsAgree
  <2>3. QED
    BY <1>0, <2>2 DEF SummaryInv, UndisturbedAgrees
<1>2. judging[g] <=> \E q \in Questions : qstatus[q] = "JUDGING"
  <2>1. judging[g] <=> Awaited(g)
    BY <1>0 DEF SummaryInv, UndisturbedAgrees
  <2>2. Awaited(g) <=> \E q \in Questions : qstatus[q] = "JUDGING"
    BY DEF Awaited
  <2>3. QED
    BY <2>1, <2>2
<1>3. Essays # {} <=> \E q \in Questions : qstatus[q] = "MANUAL_REQUIRED"
  <2>1. \A q \in Essays : q \in Questions /\ qstatus[q] = "MANUAL_REQUIRED"
    BY <1>1 DEF Fits, Questions
  <2>2. \A q \in Questions : qstatus[q] = "MANUAL_REQUIRED" => q \in Essays
    BY <1>1, GradingAssumption DEF Fits, Questions
  <2>3. QED
    BY <2>1, <2>2
<1>4. Objective = {q \in Questions : qstatus[q] \in Scored}
  <2>1. \A q \in Objective : q \in Questions /\ qstatus[q] = "MARKED"
    BY <1>1 DEF Fits, Questions
  <2>2. \A q \in Questions : qstatus[q] \in Scored => qstatus[q] = "MARKED"
    BY <1>1 DEF Scored
  <2>3. \A q \in Questions : qstatus[q] = "MARKED" => q \in Objective
    BY <1>1, GradingAssumption DEF Fits, Questions
  <2>4. QED
    BY <2>1, <2>2, <2>3 DEF Scored
<1>5. SummaryStatus(judging[g], Essays # {})
        = SummaryStatus(\E q \in Questions : qstatus[q] = "JUDGING",
                        \E q \in Questions : qstatus[q] = "MANUAL_REQUIRED")
  BY <1>2, <1>3 DEF SummaryStatus
<1>6. QED
  BY <1>4, <1>5 DEF RowsSummary

(* Graders.  Of a report a grader changes nothing, and none is under way   *)
(* while it writes rows.                                                   *)
LEMMA GraderSummary ==
  ASSUME GradingInv, SummaryInv, NEW g \in Graders, GraderStep(g) \/ AbortGrading(g)
  PROVE  SummaryInv'
<1> USE GradingAssumption
    DEF SummaryInv, UndisturbedAgrees, SerialSummaryExact, GradingUnderWay, Active, Reporting, Awaited,
        GraderMoves, GradeFault, NoGradeFault, judgeVars
<1>0. GradingTypeOK /\ GraderAgrees /\ SoleAgrees /\ NothingBefore
  BY DEF GradingInv, Consistent
<1>1. CASE BeginGrading(g)
  BY <1>0, <1>1, SameSummary DEF BeginGrading, GradingTypeOK
<1>2. CASE CreateResult(g)
  BY <1>0, <1>2, SameSummary DEF CreateResult, GradingTypeOK, NothingBefore, SoleAgrees
<1>3. CASE DispatchReturns(g)
  BY <1>0, <1>3, SameSummary DEF DispatchReturns, GradingTypeOK
<1>4. CASE MarkSubmissionQueued(g)
  <2>1. /\ gpc[g] = "marking" /\ gpc' = [gpc EXCEPT ![g] = "recording"] /\ outcome[g] = "JUDGING"
        /\ judging' = [judging EXCEPT ![g] = TRUE]
        /\ UNCHANGED <<upc, fresh, outcome, qstatus, rstatus, counted, clean>>
    BY <1>0, <1>4 DEF MarkSubmissionQueued, GraderAgrees
  <2>2. /\ gpc'[g] = "recording" /\ \A h \in Graders \ {g} : gpc'[h] = gpc[h] /\ judging'[h] = judging[h]
        /\ judging'[g] = TRUE /\ \A h \in Graders : Active(h) => h = g
    BY <1>0, <2>1 DEF GradingTypeOK, SoleAgrees
  <2>3. RowsSummary' = RowsSummary
    BY <2>1, SameSummary
  <2>4. UndisturbedAgrees'
    BY <2>1, <2>2, <2>3
  <2>5. QED
    BY <2>1, <2>2, <2>3, <2>4
<1>5. CASE RecordQuestion(g)
  <2>1. PICK q \in Questions : q = gq[g] /\ qstatus[q] = "NONE" /\ outcome[g] \notin Verdicts
    BY <1>0, <1>5, GradingAssumption DEF RecordQuestion, GradingTypeOK, GraderAgrees
  <2>2. /\ gpc[g] = "recording" /\ gpc' = [gpc EXCEPT ![g] = "grading"]
        /\ qstatus' = [qstatus EXCEPT ![q] = outcome[g]]
        /\ UNCHANGED <<upc, fresh, judging, rstatus, counted, clean>>
    BY <1>5, <2>1 DEF RecordQuestion
  <2>3. outcome' = [outcome EXCEPT ![g] = "NONE"]
    BY <1>5 DEF RecordQuestion
  <2>4. /\ gpc'[g] = "grading" /\ \A h \in Graders \ {g} : gpc'[h] = gpc[h]
        /\ \A h \in Graders : Active(h) => h = g
    BY <1>0, <2>2 DEF GradingTypeOK, SoleAgrees
  <2>5. /\ qstatus'[q] = outcome[g]
        /\ \A r \in Questions \ {q} : qstatus'[r] = qstatus[r]
    BY <1>0, <2>2 DEF GradingTypeOK
  <2>6. UndisturbedAgrees'
    <3> SUFFICES ASSUME clean
                 PROVE  UndisturbedAgrees'
      BY <2>2
    <3>1. /\ \A w \in Workers : ~Reporting(w)
          /\ \A r \in Questions : qstatus[r] \notin Verdicts
          /\ judging[g] <=> ((\E r \in Questions : qstatus[r] = "JUDGING") \/ outcome[g] = "JUDGING")
      <4>1. Active(g)
        BY <2>2
      <4>2. /\ \A w \in Workers : ~Reporting(w)
            /\ \A r \in Questions : qstatus[r] \notin Verdicts
            /\ judging[g] <=> Awaited(g)
        BY <4>1
      <4>3. Awaited(g) <=> ((\E r \in Questions : qstatus[r] = "JUDGING") \/ outcome[g] = "JUDGING")
        BY <2>2
      <4>4. QED
        BY <4>2, <4>3
    <3>2. judging[g] <=> \E r \in Questions : qstatus'[r] = "JUDGING"
      BY <2>1, <2>5, <3>1
    <3>3. \A r \in Questions : qstatus'[r] \notin Verdicts
      BY <2>1, <2>5, <3>1
    <3>4. QED
      BY <2>2, <2>4, <3>1, <3>2, <3>3
  <2>7. QED
    BY <2>2, <2>4, <2>6
<1>6. CASE FinishGrading(g)
  <2>1. /\ gpc[g] = "grading" /\ todo[g] = {} /\ gpc' = [gpc EXCEPT ![g] = "done"]
        /\ rstatus' = SummaryStatus(judging[g], Essays # {}) /\ counted' = Objective
        /\ judging' = [judging EXCEPT ![g] = FALSE]
        /\ UNCHANGED <<upc, fresh, outcome, qstatus, clean>>
    BY <1>6 DEF FinishGrading
  <2>2. /\ gpc'[g] = "done" /\ \A h \in Graders \ {g} : gpc'[h] = gpc[h] /\ judging'[h] = judging[h]
        /\ \A h \in Graders : Active(h) => h = g
    BY <1>0, <2>1 DEF GradingTypeOK, SoleAgrees
  <2>3. RowsSummary' = RowsSummary
    BY <2>1, SameSummary
  <2>4. clean => RowsSummary = [status |-> SummaryStatus(judging[g], Essays # {}), counted |-> Objective]
    BY <2>1, ClosingSummary DEF SummaryInv
  <2>5. rstatus' # "NONE"
    BY <2>1 DEF SummaryStatus
  <2>6. UndisturbedAgrees'
    BY <2>1, <2>2, <2>3
  <2>7. SerialSummaryExact'
    BY <2>1, <2>3, <2>4
  <2>8. QED
    BY <2>1, <2>2, <2>5, <2>6, <2>7
<1>7. ASSUME NEW q \in Questions, GradeQuestion(g, q)
      PROVE  SummaryInv'
  BY <1>0, <1>7, SameSummary DEF GradeQuestion, GradingTypeOK
<1>8. CASE AbortGrading(g)
  <2>1. /\ gpc' = [gpc EXCEPT ![g] = "failed"] /\ clean' = (clean /\ gpc[g] \in {"idle", "creating"})
        /\ UNCHANGED <<upc, fresh, judging, outcome, qstatus, rstatus, counted>>
    BY <1>8 DEF AbortGrading
  <2>2. gpc'[g] = "failed" /\ \A h \in Graders \ {g} : gpc'[h] = gpc[h]
    BY <1>0, <2>1 DEF GradingTypeOK
  <2>3. RowsSummary' = RowsSummary
    BY <2>1, SameSummary
  <2>4. UndisturbedAgrees'
    BY <2>1, <2>2, <2>3
  <2>5. clean' => (GradingUnderWay' <=> GradingUnderWay)
    BY <2>1, <2>2
  <2>6. SerialSummaryExact'
    BY <2>1, <2>3, <2>5
  <2>7. QED
    BY <2>1, <2>2, <2>4, <2>6
<1>9. QED
  BY <1>1, <1>2, <1>3, <1>4, <1>5, <1>6, <1>7, <1>8 DEF GraderStep

(* Who neither writes a row nor moves a report past one changes no         *)
(* summary,                                                                *)
LEMMA QuietSummary ==
  ASSUME SummaryInv, UNCHANGED <<gpc, judging, outcome, qstatus, rstatus, counted, fresh>>,
         clean' => clean,
         \A w \in Workers : upc'[w] = upc[w] \/ (~Reporting(w) /\ upc'[w] \notin {"read", "write"})
  PROVE  SummaryInv'
BY SameSummary
   DEF SummaryInv, UndisturbedAgrees, SerialSummaryExact, GradingUnderWay, Active, Reporting, Awaited

(* and nothing is asked of what has been disturbed.                        *)
LEMMA DisturbedSummary ==
  ASSUME SummaryInv, UNCHANGED <<gpc, judging, rstatus>>, clean' = FALSE,
         \A w \in Workers : upc'[w] \in {"read", "write"} => Reporting(w)
  PROVE  SummaryInv'
BY DEF SummaryInv, UndisturbedAgrees, SerialSummaryExact, Reporting

(* A report that is left alone writes the rows of now.                     *)
LEMMA ReportSummary ==
  ASSUME IInv, GradingInv, SummaryInv, NEW w \in Workers, ReportStep(w)
  PROVE  SummaryInv'
<1>0. GradingTypeOK /\ NothingBefore
  BY DEF GradingInv, Consistent
<1>1. CASE ReportSubmission(w)
  <2>1. upc[w] = "submission" /\ upc' = [upc EXCEPT ![w] = "question"] /\ clean' = clean
    BY <1>1 DEF ReportSubmission, ReportMoves
  <2>2. \A v \in Workers : upc'[v] = upc[v] \/ (~Reporting(v) /\ upc'[v] \notin {"read", "write"})
    BY <1>0, <2>1 DEF GradingTypeOK, Reporting
  <2>3. QED
    BY <1>1, <2>1, <2>2, QuietSummary DEF ReportSubmission, ReportMoves, gradingRows
<1>2. CASE ReportQuestion(w)
  <2>1. /\ upc' = [upc EXCEPT ![w] = "read"] /\ rstatus' = rstatus /\ rstatus # "NONE"
        /\ clean' => /\ ~GradingUnderWay /\ \A v \in Workers : ~Reporting(v)
        /\ UNCHANGED <<gpc, judging>>
    BY <1>0, <1>2 DEF ReportQuestion, ReportMoves, gradingRows, HasRow, NothingBefore
  <2>2. upc'[w] = "read" /\ \A v \in Workers \ {w} : upc'[v] = upc[v]
    BY <1>0, <2>1 DEF GradingTypeOK
  <2>3. UndisturbedAgrees'
    BY <2>1, <2>2 DEF UndisturbedAgrees, GradingUnderWay, Active, Reporting
  <2>4. QED
    BY <2>1, <2>2, <2>3 DEF SummaryInv, SerialSummaryExact, Reporting
<1>3. CASE ReportUnplaced(w)
  <2>1. upc' = [upc EXCEPT ![w] = "none"]
    BY <1>3 DEF ReportUnplaced, ReportMoves
  <2>2. \A v \in Workers : upc'[v] \in {"read", "write"} => Reporting(v)
    BY <1>0, <2>1 DEF GradingTypeOK, Reporting
  <2>3. QED
    BY <1>3, <2>2, DisturbedSummary DEF ReportUnplaced, ReportMoves, gradingRows
<1>4. CASE ReportRead(w)
  <2>1. /\ upc[w] = "read" /\ upc' = [upc EXCEPT ![w] = "write"]
        /\ fresh' = [fresh EXCEPT ![w] = RowsSummary]
        /\ UNCHANGED <<gpc, judging, outcome, qstatus, rstatus, counted, clean>>
    BY <1>4 DEF ReportRead, ReportMoves, gradingRows
  <2>2. /\ upc'[w] = "write" /\ fresh'[w] = RowsSummary
        /\ \A v \in Workers \ {w} : upc'[v] = upc[v] /\ fresh'[v] = fresh[v]
    BY <1>0, <2>1 DEF GradingTypeOK
  <2>3. RowsSummary' = RowsSummary
    BY <2>1, SameSummary
  <2>4. UndisturbedAgrees'
    BY <2>1, <2>2, <2>3 DEF SummaryInv, UndisturbedAgrees, Active, Awaited, Reporting
  <2>5. QED
    BY <2>1, <2>2, <2>4 DEF SummaryInv, SerialSummaryExact, Reporting
<1>5. CASE ReportWrite(w)
  <2>1. /\ upc[w] = "write" /\ upc' = [upc EXCEPT ![w] = "none"]
        /\ fresh' = [fresh EXCEPT ![w] = NoSummary]
        /\ rstatus' = fresh[w].status /\ counted' = fresh[w].counted
        /\ UNCHANGED <<gpc, judging, outcome, qstatus, clean>>
    BY <1>5 DEF ReportWrite, ReportMoves, gradingRows
  <2>2. /\ upc'[w] = "none"
        /\ \A v \in Workers \ {w} : upc'[v] = upc[v] /\ fresh'[v] = fresh[v]
    BY <1>0, <2>1 DEF GradingTypeOK
  <2>3. /\ fresh[w] = [status |-> fresh[w].status, counted |-> fresh[w].counted]
        /\ fresh[w].status # "NONE"
    BY <1>0 DEF GradingTypeOK, Summaries, ResultStatuses
  <2>4. RowsSummary' = RowsSummary
    BY <2>1, SameSummary
  <2>5. clean => fresh[w] = RowsSummary
    BY <2>1 DEF SummaryInv, UndisturbedAgrees
  <2>6. UndisturbedAgrees'
    BY <2>1, <2>2, <2>4 DEF SummaryInv, UndisturbedAgrees, Active, Awaited, Reporting
  <2>7. SerialSummaryExact'
    BY <2>1, <2>3, <2>4, <2>5 DEF SerialSummaryExact
  <2>8. QED
    BY <2>1, <2>3, <2>6, <2>7 DEF SummaryInv
<1>6. QED
  BY <1>1, <1>2, <1>3, <1>4, <1>5 DEF ReportStep

LEMMA InitSummary == GradingInit => SummaryInv
BY DEF GradingInit, SummaryInv, UndisturbedAgrees, SerialSummaryExact, Active, Reporting

LEMMA StepSummary == IInv /\ GradingInv /\ SummaryInv /\ [Next]_vars => SummaryInv'
<1> SUFFICES ASSUME IInv, GradingInv, SummaryInv, [Next]_vars PROVE SummaryInv'
  OBVIOUS
<1>0. GradingTypeOK
  BY DEF GradingInv, Consistent
<1>1. ASSUME NEW g \in Graders, GraderStep(g) \/ AbortGrading(g)
      PROVE  SummaryInv'
  BY <1>1, GraderSummary
<1>2. ASSUME NEW j \in DirectJobs, StoreSubmission(j) \/ FinishSubmission(j)
      PROVE  SummaryInv'
  BY <1>2, QuietSummary DEF StoreSubmission, FinishSubmission, DirectMoves
<1>3. ASSUME NEW j \in Jobs, Dispatch(j)
      PROVE  SummaryInv'
  <2>1. UNCHANGED <<gpc, judging, outcome, qstatus, rstatus, counted, fresh, upc>>
    BY <1>3 DEF Dispatch, gradingRows
  <2>2. clean' = clean \/ clean' = (clean /\ dispatch'[j] # "crashed")
    BY <1>3 DEF Dispatch
  <2>3. clean' => clean
    BY <2>2
  <2>4. QED
    BY <2>1, <2>3, QuietSummary
<1>4. ASSUME NEW w \in Workers, Judge(w)
      PROVE  SummaryInv'
  BY <1>4, QuietSummary DEF Judge, gradingVars
<1>5. ASSUME NEW w \in Workers, BeginReport(w)
      PROVE  SummaryInv'
  <2>1. wpc[w] # "reporting"
    BY <1>5 DEF BeginReport, SaveVerdict, Advance
  <2>2. upc[w] = "none" /\ upc' = [upc EXCEPT ![w] = "submission"]
    BY <1>5, <2>1 DEF BeginReport, GradingInv, Consistent, ReportsAgree
  <2>3. \A v \in Workers : upc'[v] = upc[v] \/ (~Reporting(v) /\ upc'[v] \notin {"read", "write"})
    BY <1>0, <2>2 DEF GradingTypeOK, Reporting
  <2>4. QED
    BY <1>5, <2>3, QuietSummary DEF BeginReport, gradingRows
<1>6. ASSUME NEW w \in Workers, ReportStep(w)
      PROVE  SummaryInv'
  BY <1>6, ReportSummary
<1>7. ASSUME NEW w \in Workers, Disturb(w)
      PROVE  SummaryInv'
  <2>1. \A v \in Workers : upc'[v] \in {"read", "write"} => Reporting(v)
    BY <1>0, <1>7 DEF Disturb, GradingTypeOK, Reporting
  <2>2. QED
    BY <1>7, <2>1, DisturbedSummary DEF Disturb, gradingRows
<1>8. CASE LoseQueue
  BY <1>8, DisturbedSummary DEF LoseQueue, gradingRows, Reporting
<1>9. CASE UNCHANGED vars
  BY <1>9, QuietSummary DEF vars, gradingVars
<1>10. QED
  BY <1>1, <1>2, <1>3, <1>4, <1>5, <1>6, <1>7, <1>8, <1>9 DEF Next

-----------------------------------------------------------------------------
(* What holds of grading.                                                  *)

(* However many SubmitExam calls, dispatchers and workers interleave, and  *)
(* whatever fails among their statements: rows, results, graders and       *)
(* reports agree with each other, and summaries with rows.                 *)
THEOREM GradingInvariant == Spec => [](GradingInv /\ SummaryInv)
<1>1. GradingInit => GradingInv /\ SummaryInv
  BY InitGradingInv, InitSummary
<1>2. IInv /\ IInv' /\ GradingInv /\ SummaryInv /\ [Next]_vars => (GradingInv /\ SummaryInv)'
  BY StepGradingInv, StepSummary
<1>3. QED
  BY <1>1, <1>2, JudgeInside, PTL DEF Spec

(* Every row and every local of the grading code keeps its type.           *)
THEOREM GradingTypes == Spec => []GradingTypeOK
<1>1. GradingInv => GradingTypeOK
  BY DEF GradingInv, Consistent
<1>2. QED
  BY <1>1, GradingInvariant, PTL

(* The unique index makes one grader the only one, however many calls of   *)
(* SubmitExam race, are repeated or read a failed look-up as "no result".  *)
THEOREM GradedOnce == Spec => []SoleGrader
<1>1. GradingInv => SoleGrader
  BY DEF GradingInv, Consistent, SoleAgrees, SoleGrader, Active, GradingTypeOK
<1>2. QED
  BY <1>1, GradingInvariant, PTL

(* A call that ended well left a result, its own or another's.             *)
THEOREM SubmitLeavesResult == Spec => []AckedSubmitHasResult
<1>1. GradingInv => AckedSubmitHasResult
  BY DEF GradingInv, Consistent, NothingBefore, AckedSubmitHasResult
<1>2. QED
  BY <1>1, GradingInvariant, PTL

(* No verdict reaches the row of a question but that of its own task and   *)
(* its one execution, whatever is delivered twice or retried.              *)
THEOREM RowsHaveTheirVerdicts == Spec => []VerdictsAgree
<1>1. GradingInv => VerdictsAgree
  BY DEF GradingInv
<1>2. QED
  BY <1>1, GradingInvariant, PTL

(* Closing summaries and refreshes may overwrite each other in any order:  *)
(* none of them counts a score that no row has.                            *)
THEOREM ScoresAreOfRows == Spec => []ScoreNeverOverstated
<1>1. GradingInv => ScoreNeverOverstated
  BY DEF GradingInv, Consistent
<1>2. QED
  BY <1>1, GradingInvariant, PTL

(* With nothing disturbed the summary is that of the rows.                 *)
THEOREM UndisturbedIsExact == Spec => []SerialSummaryExact
<1>1. SummaryInv => SerialSummaryExact
  BY DEF SummaryInv
<1>2. QED
  BY <1>1, GradingInvariant, PTL

(* A row that is settled stays, by every step of every process: grading    *)
(* writes a row once, and a report writes what the row has or waits for.   *)
LEMMA RowStays ==
  ASSUME IInv, GradingInv, [Next]_vars, NEW q \in Questions
  PROVE  /\ qstatus[q] \in Settled \cup {"MANUAL_REQUIRED"} => qstatus'[q] = qstatus[q]
         /\ qstatus[q] = "JUDGING" => qstatus'[q] \in {"JUDGING"} \cup Verdicts
<1> USE GradingAssumption DEF Settled, Scored
<1>0. GradingTypeOK
  BY DEF GradingInv, Consistent
<1>1. ASSUME NEW g \in Graders, RecordQuestion(g)
      PROVE  qstatus'[q] = qstatus[q] \/ qstatus[q] = "NONE"
  BY <1>0, <1>1 DEF RecordQuestion, GradingTypeOK
<1>2. ASSUME NEW g \in Graders, GraderStep(g) \/ AbortGrading(g), ~RecordQuestion(g)
      PROVE  qstatus' = qstatus
  BY <1>2 DEF GraderStep, BeginGrading, CreateResult, DispatchReturns, MarkSubmissionQueued,
       FinishGrading, GradeQuestion, AbortGrading
<1>3. ASSUME NEW w \in Workers, ReportQuestion(w)
      PROVE  qstatus'[q] = qstatus[q] \/ (qstatus[q] = "JUDGING" /\ qstatus'[q] \in Verdicts)
  <2>1. /\ wjob[w] \in Questions /\ verdict[w] \in Verdicts
        /\ qstatus[wjob[w]] \in {"JUDGING", verdict[w]}
    BY <1>3, ReportPlaced
  <2>2. qstatus' = [qstatus EXCEPT ![wjob[w]] = verdict[w]]
    BY <1>3 DEF ReportQuestion
  <2>3. QED
    BY <1>0, <2>1, <2>2 DEF GradingTypeOK
<1>4. ASSUME Next, \A g \in Graders : ~(GraderStep(g) \/ AbortGrading(g)), \A w \in Workers : ~ReportQuestion(w)
      PROVE  qstatus' = qstatus
  BY <1>4 DEF Next, StoreSubmission, FinishSubmission, DirectMoves, Dispatch, Judge, BeginReport,
       ReportStep, ReportSubmission, ReportUnplaced, ReportRead, ReportWrite, Disturb, LoseQueue,
       gradingVars
<1>5. ASSUME UNCHANGED vars
      PROVE  qstatus' = qstatus
  BY <1>5 DEF vars, gradingVars
<1>6. qstatus'[q] = qstatus[q] \/ qstatus[q] = "NONE" \/ (qstatus[q] = "JUDGING" /\ qstatus'[q] \in Verdicts)
  BY <1>1, <1>2, <1>3, <1>4, <1>5
<1>7. QED
  BY <1>6

(* No later report, retry or grader takes back a mark that was given.      *)
THEOREM RowsAreFinal == Spec => QuestionResultsAreFinal
<1> DEFINE Final ==
      \A q \in Questions :
        /\ qstatus[q] \in Settled \cup {"MANUAL_REQUIRED"} => qstatus'[q] = qstatus[q]
        /\ qstatus[q] = "JUDGING" => qstatus'[q] \in {"JUDGING"} \cup Verdicts
<1>1. IInv /\ GradingInv /\ [Next]_vars => [Final]_vars
  BY RowStays
<1>. HIDE DEF Final
<1>2. Spec => [][Final]_vars
  BY <1>1, JudgeInside, GradingInvariant, PTL DEF Spec
<1>3. QED
  BY <1>2 DEF QuestionResultsAreFinal, Final
=============================================================================
