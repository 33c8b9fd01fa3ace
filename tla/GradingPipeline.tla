--------------------------- MODULE GradingPipeline ---------------------------
(***************************************************************************)
(* From a submitted session to its score: gradeSubmittedSession            *)
(* (internal/exam/grading.go) creating the exam result and its question    *)
(* results, CreateSubmission (internal/exam/submission.go), and the        *)
(* worker's UpdateJudgeResult (internal/exam/store/judge.go) writing       *)
(* verdicts back, composed with JudgePipeline, which both sides share.     *)
(*                                                                         *)
(* One submitted session is modelled.  Every row of another session is     *)
(* disjoint from it.  A score is the set of the questions counted in it,   *)
(* so that no weights, totals or partial credits need be chosen.           *)
(***************************************************************************)
EXTENDS JudgePipeline

CONSTANTS
  Graders,     \* SubmitExam calls that reach gradeSubmittedSession
  Objective,   \* questions gradeObjectiveQuestion marks
  Essays,      \* SHORT_ANSWER questions
  Coded,       \* programming questions answered with code and language;
               \* the other jobs are free runs made through CreateSubmission
  MaxGradeFaults

VARIABLES
  gpc,         \* where each grader stands
  gq,          \* the question it is handling
  outcome,     \* the status it will record for that question
  todo,        \* the questions it has not recorded yet
  judging,     \* its local hasJudging
  dpc,         \* where each CreateSubmission call stands
  sub,         \* status of each job's submissions row
  qstatus,     \* status of each question_results row
  rstatus,     \* status of the session's exam_results row
  counted,     \* the questions whose row scores make up that row's score
  upc,         \* where each worker's UpdateJudgeResult call stands
  fresh,       \* the summary a worker has computed and not yet written
  clean,       \* history: no delivery failed and no report overlapped
  gradeFaults

gradingVars == <<gpc, gq, outcome, todo, judging, dpc, sub, qstatus, rstatus, counted,
                 upc, fresh, clean, gradeFaults>>
vars == <<judgeVars, gradingVars>>

Questions  == Objective \cup Essays \cup Coded
DirectJobs == Jobs \ Coded

GraderStates  == {"idle", "creating", "grading", "dispatching", "marking", "recording",
                  "done", "failed"}
DirectStates  == {"idle", "dispatching", "done", "failed"}
ReportStates  == {"none", "submission", "question", "read", "write"}
SubStatuses   == {"NONE", "PENDING", "QUEUED"} \cup Verdicts
Scored        == {"MARKED"} \cup Verdicts      \* rows whose score may not be 0
Settled       == {"UNANSWERED"} \cup Scored
RowStatuses   == {"NONE", "JUDGING", "MANUAL_REQUIRED"} \cup Settled
ResultStatuses == {"GRADED", "JUDGING", "MANUAL_REQUIRED"}
Summaries     == [status : ResultStatuses, counted : SUBSET Questions]
NoSummary     == [status |-> "GRADED", counted |-> {}]

ASSUME GradingAssumption ==
  /\ Coded \subseteq Jobs
  /\ Objective \cap Essays = {} /\ (Objective \cup Essays) \cap Jobs = {}
  /\ None \notin Questions
  /\ MaxGradeFaults \in Nat
  /\ Verdicts \cap {"NONE", "PENDING", "QUEUED", "JUDGING", "MANUAL_REQUIRED", "MARKED",
                    "UNANSWERED"} = {}

GradingTypeOK ==
  /\ gpc     \in [Graders -> GraderStates]
  /\ gq      \in [Graders -> Questions \cup {None}]
  /\ outcome \in [Graders -> RowStatuses]
  /\ todo    \in [Graders -> SUBSET Questions]
  /\ judging \in [Graders -> BOOLEAN]
  /\ dpc     \in [DirectJobs -> DirectStates]
  /\ sub     \in [Jobs -> SubStatuses]
  /\ qstatus \in [Questions -> RowStatuses]
  /\ rstatus \in ResultStatuses \cup {"NONE"}
  /\ counted \in SUBSET Questions
  /\ upc     \in [Workers -> ReportStates]
  /\ fresh   \in [Workers -> Summaries]
  /\ clean   \in BOOLEAN
  /\ gradeFaults \in 0..MaxGradeFaults

GradingInit ==
  /\ JudgeInit
  /\ gpc     = [g \in Graders |-> "idle"]
  /\ gq      = [g \in Graders |-> None]
  /\ outcome = [g \in Graders |-> "NONE"]
  /\ todo    = [g \in Graders |-> {}]
  /\ judging = [g \in Graders |-> FALSE]
  /\ dpc     = [j \in DirectJobs |-> "idle"]
  /\ sub     = [j \in Jobs |-> "NONE"]
  /\ qstatus = [q \in Questions |-> "NONE"]
  /\ rstatus = "NONE"
  /\ counted = {}
  /\ upc     = [w \in Workers |-> "none"]
  /\ fresh   = [w \in Workers |-> NoSummary]
  /\ clean   = TRUE
  /\ gradeFaults = 0

GradeFault   == gradeFaults < MaxGradeFaults /\ gradeFaults' = gradeFaults + 1
NoGradeFault == UNCHANGED gradeFaults

(* The status rule grading.go and refreshExamResultSummary share.          *)
SummaryStatus(hasJudging, hasManual) ==
  CASE hasJudging -> "JUDGING"
    [] hasManual /\ ~hasJudging -> "MANUAL_REQUIRED"
    [] OTHER -> "GRADED"

-----------------------------------------------------------------------------
(* gradeSubmittedSession.                                                  *)

GraderMoves(g, from, to) ==
  /\ gpc[g] = from
  /\ gpc' = [gpc EXCEPT ![g] = to]
  /\ UNCHANGED <<judgeVars, dpc, upc, fresh>>

BeginGrading_LookupErrorIsNil(g) ==
  /\ \/ rstatus # "NONE" /\ GraderMoves(g, "idle", "done") /\ NoGradeFault
     \/ rstatus = "NONE" /\ GraderMoves(g, "idle", "creating") /\ NoGradeFault
     \/ GraderMoves(g, "idle", "done") /\ GradeFault
  /\ UNCHANGED <<gq, outcome, todo, judging, sub, qstatus, rstatus, counted, clean>>

(* Lines 11-26: a result that exists ends the call; a failing look-up is   *)
(* taken for "no result".                                                  *)
BeginGrading(g) ==
  /\ \/ rstatus # "NONE" /\ GraderMoves(g, "idle", "done") /\ NoGradeFault
     \/ rstatus = "NONE" /\ GraderMoves(g, "idle", "creating") /\ NoGradeFault
     \/ rstatus # "NONE" /\ GraderMoves(g, "idle", "creating") /\ GradeFault
  /\ UNCHANGED <<gq, outcome, todo, judging, sub, qstatus, rstatus, counted, clean>>

CreateResult_NoIndex(g) ==
  /\ GraderMoves(g, "creating", "grading")
  /\ rstatus' = "GRADED"
  /\ todo' = [todo EXCEPT ![g] = Questions]
  /\ NoGradeFault /\ UNCHANGED <<gq, outcome, judging, sub, qstatus, counted, clean>>

(* The unique index on exam_session_id lets one grader create the row; for *)
(* any other the call ends in success.                                     *)
CreateResult(g) ==
  /\ \/ /\ rstatus = "NONE"
        /\ GraderMoves(g, "creating", "grading")
        /\ rstatus' = "GRADED"
        /\ todo' = [todo EXCEPT ![g] = Questions]
     \/ /\ rstatus # "NONE"
        /\ GraderMoves(g, "creating", "done")
        /\ UNCHANGED <<rstatus, todo>>
  /\ NoGradeFault /\ UNCHANGED <<gq, outcome, judging, sub, qstatus, counted, clean>>

(* The next question: everything but a coded answer has its outcome at     *)
(* once; for a coded answer a submission is stored first.                  *)
GradeQuestion(g, q) ==
  /\ q \in todo[g]
  /\ gq' = [gq EXCEPT ![g] = q]
  /\ \/ /\ q \notin Coded
        /\ GraderMoves(g, "grading", "recording")
        /\ outcome' = [outcome EXCEPT ![g] = IF q \in Essays THEN "MANUAL_REQUIRED" ELSE "MARKED"]
        /\ NoGradeFault /\ UNCHANGED sub
     \/ /\ q \in Coded
        /\ GraderMoves(g, "grading", "dispatching")
        /\ sub' = [sub EXCEPT ![q] = "PENDING"]
        /\ NoGradeFault /\ UNCHANGED outcome
     \/ /\ q \in Coded     \* CreateSubmission failed
        /\ GraderMoves(g, "grading", "recording")
        /\ outcome' = [outcome EXCEPT ![g] = "UNANSWERED"]
        /\ GradeFault /\ UNCHANGED sub
  /\ UNCHANGED <<todo, judging, qstatus, rstatus, counted, clean>>

DispatchReturns_Queued(g) ==
  /\ GraderMoves(g, "dispatching", "marking")
  /\ dispatch[gq[g]] = "done"
  /\ outcome' = [outcome EXCEPT ![g] = "QUEUED"]
  /\ NoGradeFault /\ UNCHANGED <<gq, todo, judging, sub, qstatus, rstatus, counted, clean>>

(* CreateAndEnqueue has returned to the grader.                            *)
DispatchReturns(g) ==
  /\ \/ /\ GraderMoves(g, "dispatching", "marking")
        /\ dispatch[gq[g]] = "done"
        /\ outcome' = [outcome EXCEPT ![g] = "JUDGING"]
     \/ /\ GraderMoves(g, "dispatching", "recording")
        /\ dispatch[gq[g]] = "failed"
        /\ outcome' = [outcome EXCEPT ![g] = "UNANSWERED"]
  /\ NoGradeFault /\ UNCHANGED <<gq, todo, judging, sub, qstatus, rstatus, counted, clean>>

(* UpdateSubmissionStatus(QUEUED); its error is dropped.                   *)
MarkSubmissionQueued(g) ==
  /\ GraderMoves(g, "marking", "recording")
  /\ judging' = [judging EXCEPT ![g] = TRUE]
  /\ \/ sub' = [sub EXCEPT ![gq[g]] = "QUEUED"] /\ NoGradeFault
     \/ UNCHANGED sub /\ GradeFault
  /\ UNCHANGED <<gq, outcome, todo, qstatus, rstatus, counted, clean>>

(* CreateQuestionResult; the row is unique per result and question.        *)
RecordQuestion(g) ==
  /\ GraderMoves(g, "recording", "grading")
  /\ qstatus[gq[g]] = "NONE"
  /\ qstatus' = [qstatus EXCEPT ![gq[g]] = outcome[g]]
  /\ todo' = [todo EXCEPT ![g] = @ \ {gq[g]}]
  /\ gq' = [gq EXCEPT ![g] = None]
  /\ outcome' = [outcome EXCEPT ![g] = "NONE"]
  /\ NoGradeFault /\ UNCHANGED <<judging, sub, rstatus, counted, clean>>

FinishGrading_Graded(g) ==
  /\ todo[g] = {}
  /\ GraderMoves(g, "grading", "done")
  /\ rstatus' = SummaryStatus(FALSE, Essays # {})
  /\ counted' = Objective
  /\ judging' = [judging EXCEPT ![g] = FALSE]
  /\ NoGradeFault /\ UNCHANGED <<gq, outcome, todo, sub, qstatus, clean>>

(* UpdateExamResultSummary with what the loop added up: the objective      *)
(* scores, and what it dispatched, not what has been judged meanwhile.     *)
FinishGrading(g) ==
  /\ todo[g] = {}
  /\ GraderMoves(g, "grading", "done")
  /\ rstatus' = SummaryStatus(judging[g], Essays # {})
  /\ counted' = Objective
  /\ judging' = [judging EXCEPT ![g] = FALSE]
  /\ NoGradeFault /\ UNCHANGED <<gq, outcome, todo, sub, qstatus, clean>>

(* A statement fails where that ends the call, or the API process dies.    *)
AbortGrading(g) ==
  /\ \E pc \in {"idle", "creating", "grading", "marking", "recording"} :
       GraderMoves(g, pc, "failed")
  /\ clean' = (clean /\ gpc[g] \in {"idle", "creating"})
  /\ GradeFault
  /\ UNCHANGED <<gq, outcome, todo, judging, sub, qstatus, rstatus, counted>>

-----------------------------------------------------------------------------
(* CreateSubmission: a free run, with no question result.                  *)

DirectMoves(j, from, to) ==
  /\ dpc[j] = from
  /\ dpc' = [dpc EXCEPT ![j] = to]
  /\ UNCHANGED <<judgeVars, gpc, gq, outcome, todo, judging, qstatus, rstatus, counted,
                 upc, fresh, clean>>

StoreSubmission(j) ==
  /\ DirectMoves(j, "idle", "dispatching")
  /\ sub' = [sub EXCEPT ![j] = "PENDING"]
  /\ NoGradeFault

FinishSubmission(j) ==
  \/ /\ dispatch[j] = "done"
     /\ DirectMoves(j, "dispatching", "done")
     /\ sub' = [sub EXCEPT ![j] = "QUEUED"]
     /\ NoGradeFault
  \/ /\ dispatch[j] = "done"
     /\ DirectMoves(j, "dispatching", "failed")
     /\ GradeFault /\ UNCHANGED sub
  \/ /\ dispatch[j] = "failed"
     /\ DirectMoves(j, "dispatching", "failed")
     /\ NoGradeFault /\ UNCHANGED sub
-----------------------------------------------------------------------------
(* The judge's steps, with what they mean for the rows of this module.     *)

(* CreateAndEnqueue runs inside a call that waits for it.                  *)
CallerWaits(j) ==
  \/ \E g \in Graders : gpc[g] = "dispatching" /\ gq[g] = j
  \/ j \in DirectJobs /\ dpc[j] = "dispatching"

gradingRows == <<gpc, gq, outcome, todo, judging, dpc, gradeFaults>>

Dispatch(j) ==
  /\ CallerWaits(j)
  /\ \/ DispatcherStep(j) /\ UNCHANGED clean
     \/ DispatcherFault(j) /\ clean' = (clean /\ dispatch'[j] # "crashed")
  /\ UNCHANGED <<gradingRows, sub, qstatus, rstatus, counted, upc, fresh>>

Judge(w) ==
  /\ LoadTask(w) \/ SaveRunning(w) \/ RunSandbox(w) \/ \E j \in Jobs : TakeMessage(w, j)
  /\ UNCHANGED gradingVars

BeginReport(w) ==
  /\ SaveVerdict(w)
  /\ upc' = [upc EXCEPT ![w] = "submission"]
  /\ UNCHANGED <<gradingRows, sub, qstatus, rstatus, counted, fresh, clean>>

(* UpdateJudgeResult, statement by statement.                              *)
ReportMoves(w, from, to) ==
  /\ upc[w] = from
  /\ upc' = [upc EXCEPT ![w] = to]
  /\ UNCHANGED gradingRows

ReportSubmission(w) ==
  /\ ReportMoves(w, "submission", "question")
  /\ sub' = [sub EXCEPT ![wjob[w]] = verdict[w]]
  /\ UNCHANGED <<judgeVars, qstatus, rstatus, counted, fresh, clean>>

GradingUnderWay ==
  \E g \in Graders : gpc[g] \in {"grading", "dispatching", "marking", "recording"}
Reporting(w) == upc[w] \in {"read", "write"}
HasRow(j)    == j \in Questions /\ qstatus[j] # "NONE"

ReportQuestion(w) ==
  /\ HasRow(wjob[w])
  /\ ReportMoves(w, "question", "read")
  /\ qstatus' = [qstatus EXCEPT ![wjob[w]] = verdict[w]]
  /\ clean' = (clean /\ ~GradingUnderWay /\ \A v \in Workers : ~Reporting(v))
  /\ UNCHANGED <<judgeVars, sub, rstatus, counted, fresh>>

(* ErrQuestionResultNotFound: the delivery fails, the verdict is written   *)
(* to the task and to the submission only.                                 *)
ReportUnplaced(w) ==
  /\ ~HasRow(wjob[w])
  /\ ReportMoves(w, "question", "none")
  /\ ReportFails(w)
  /\ clean' = FALSE
  /\ UNCHANGED <<sub, qstatus, rstatus, counted, fresh>>

RowsSummary_AllRows ==
  LET Has(status) == \E q \in Questions : qstatus[q] = status IN
  [status  |-> SummaryStatus(Has("JUDGING"), Has("MANUAL_REQUIRED")),
   counted |-> {q \in Questions : qstatus[q] # "NONE"}]

(* refreshExamResultSummary: the rows there are, read by one statement ... *)
RowsSummary ==
  LET Has(status) == \E q \in Questions : qstatus[q] = status IN
  [status  |-> SummaryStatus(Has("JUDGING"), Has("MANUAL_REQUIRED")),
   counted |-> {q \in Questions : qstatus[q] \in Scored}]

ReportRead(w) ==
  /\ ReportMoves(w, "read", "write")
  /\ fresh' = [fresh EXCEPT ![w] = RowsSummary]
  /\ UNCHANGED <<judgeVars, sub, qstatus, rstatus, counted, clean>>

ReportWrite_ScoreOnly(w) ==
  /\ ReportMoves(w, "write", "none")
  /\ counted' = fresh[w].counted
  /\ fresh' = [fresh EXCEPT ![w] = NoSummary]
  /\ ReportResult(w)
  /\ UNCHANGED <<sub, qstatus, rstatus, clean>>

(* ... and their summary written by another.                               *)
ReportWrite(w) ==
  /\ ReportMoves(w, "write", "none")
  /\ rstatus' = fresh[w].status
  /\ counted' = fresh[w].counted
  /\ fresh' = [fresh EXCEPT ![w] = NoSummary]
  /\ ReportResult(w)
  /\ UNCHANGED <<sub, qstatus, clean>>

(* A delivery is rejected, fails or dies, or redis restarts.               *)
Disturb(w) ==
  /\ RejectTask(w) \/ AbortDelivery(w)
  /\ upc' = [upc EXCEPT ![w] = "none"]
  /\ fresh' = [fresh EXCEPT ![w] = NoSummary]
  /\ clean' = FALSE
  /\ UNCHANGED <<gradingRows, sub, qstatus, rstatus, counted>>

LoseQueue ==
  /\ QueueLoss
  /\ clean' = FALSE
  /\ UNCHANGED <<gradingRows, sub, qstatus, rstatus, counted, upc, fresh>>

-----------------------------------------------------------------------------
GraderStep(g) ==
  \/ BeginGrading(g) \/ CreateResult(g) \/ DispatchReturns(g) \/ MarkSubmissionQueued(g)
  \/ RecordQuestion(g) \/ FinishGrading(g)
  \/ \E q \in Questions : GradeQuestion(g, q)

ReportStep(w) ==
  ReportSubmission(w) \/ ReportQuestion(w) \/ ReportUnplaced(w) \/ ReportRead(w)
    \/ ReportWrite(w)

Next ==
  \/ \E g \in Graders : GraderStep(g) \/ AbortGrading(g)
  \/ \E j \in DirectJobs : StoreSubmission(j) \/ FinishSubmission(j)
  \/ \E j \in Jobs : Dispatch(j)
  \/ \E w \in Workers : Judge(w) \/ BeginReport(w) \/ ReportStep(w) \/ Disturb(w)
  \/ LoseQueue

Spec == GradingInit /\ [][Next]_vars

(* A call that has begun and a running worker keep going.                  *)
Fairness ==
  /\ \A g \in Graders : WF_vars(gpc[g] # "idle" /\ GraderStep(g) /\ NoGradeFault)
  /\ \A j \in Jobs : WF_vars(Dispatch(j) /\ NoFault)
  /\ \A w \in Workers : WF_vars((Judge(w) \/ BeginReport(w) \/ ReportStep(w)))
  /\ \A w \in Workers : WF_vars(Disturb(w) /\ NoFault)

FairSpec == Spec /\ Fairness

-----------------------------------------------------------------------------
(* Safety.                                                                 *)

(* However many SubmitExam calls race and retry, one of them at most is    *)
(* past CreateExamResult, and the question it is recording has no row and, *)
(* if it is a coded one, only the task of this grader: the unique index on *)
(* exam_session_id is all that stands between a double click and a         *)
(* duplicated grading.                                                     *)
SoleGrader ==
  \A g, h \in Graders :
    gpc[g] \in {"grading", "dispatching", "marking", "recording"} =>
      /\ gpc[h] \in {"grading", "dispatching", "marking", "recording"} => g = h
      /\ \A q \in todo[g] : qstatus[q] = "NONE"
      /\ \A q \in todo[g] \ {gq[g]} : q \in Coded => dispatch[q] = "idle"

(* A SubmitExam that returned without error left an exam result behind.    *)
AckedSubmitHasResult == (\E g \in Graders : gpc[g] = "done") => rstatus # "NONE"

(* A verdict in a question result is the verdict of that question's task,  *)
(* which got it from the one execution of the candidate's code.            *)
VerdictsAgree ==
  \A q \in Coded : qstatus[q] \in Verdicts => task[q] = qstatus[q] /\ executions[q] = 1

(* Whatever races between graders and workers, the stored total never      *)
(* contains a score that is not in the question results.                   *)
ScoreNeverOverstated == \A q \in counted : qstatus[q] \in Scored

(* A summary is exact as long as judging began after grading ended, no     *)
(* delivery failed and no two reports overlapped.                          *)
SerialSummaryExact ==
  (clean /\ ~GradingUnderWay /\ rstatus # "NONE" /\ \A w \in Workers : ~Reporting(w))
    => [status |-> rstatus, counted |-> counted] = RowsSummary

(* A question result that is settled stays as it is, and none goes away.   *)
QuestionResultsAreFinal ==
  [][\A q \in Questions :
       /\ qstatus[q] \in Settled \cup {"MANUAL_REQUIRED"} => qstatus'[q] = qstatus[q]
       /\ qstatus[q] = "JUDGING" => qstatus'[q] \in {"JUDGING"} \cup Verdicts]_vars

(* Undisturbed, a graded session reaches its final result.                 *)
UndisturbedResultSettles ==
  (\E g \in Graders : gpc[g] = "done") ~>
    (clean => /\ rstatus # "JUDGING"
              /\ \A q \in Questions : qstatus[q] \in Settled \cup {"MANUAL_REQUIRED"})

-----------------------------------------------------------------------------
(* What the documentation promises and the races above deny.               *)

(* A judged answer is scored: the verdict reaches the question result.     *)
JudgedAnswerIsScored ==
  \A q \in Coded : task[q] \in Verdicts ~> qstatus[q] \in Verdicts
=============================================================================
