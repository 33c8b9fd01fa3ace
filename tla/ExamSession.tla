----------------------------- MODULE ExamSession -----------------------------
(***************************************************************************)
(* One candidate's sitting of one published exam: StartExamSession,        *)
(* SaveAnswers and SubmitExam (internal/exam/snapshot_service.go), the     *)
(* administrator's CloseExam, UpdateExam, RemoveCandidate (exam.go) and    *)
(* AssignExamTargets (user_group.go), and the rows they share              *)
(* (internal/exam/store/session.go, draft.go, submission.go).              *)
(*                                                                         *)
(* The API serves every request in a goroutine of its own and no handler   *)
(* opens a transaction or locks a row.  A request here is such a handler:  *)
(* it takes one step per store call, with a copy of the session row it     *)
(* read, so that any other request may act between two of its steps.  What *)
(* SubmitExam does after CreateExamResult is GradingPipeline's subject.    *)
(***************************************************************************)
EXTENDS Naturals, FiniteSets

CONSTANTS
  Requests,    \* requests the API receives about this candidate and exam
  Questions,   \* the question snapshots of the exam
  StartTime,   \* start_time of the exam snapshot
  EndTime,     \* end_time of the exam snapshot
  Duration,    \* duration_minutes of the exam snapshot
  MaxTime,     \* bound on the clock
  MaxSessions, \* bound on how often the session row is created
  None         \* NULL

VARIABLES
  exam,      \* status column of the exams row
  session,   \* the exam_sessions row of the candidate, or NoSession
  created,   \* rows created so far; their ids are 1..created
  drafts,    \* answer_drafts: session id -> question -> stamp of the answer
  result,    \* exam_results: session id -> stamps graded, or NoResult
  clock,     \* the server's clock
  pc,        \* where each request stands
  call,      \* the handler it runs
  copy,      \* the session row it read
  at,        \* the clock when it took its last step that matters to time
  left,      \* questions SaveAnswers has still to store
  read,      \* drafts gradeSubmittedSession has read
  stamp,     \* history: answers stored so far, each stamped in turn
  own,       \* history: stamps of the answers a request stored
  promised,  \* history: stamps acknowledged before any submit arrived
  begun      \* history: the clock when each session was first started

rowVars  == <<exam, session, created, drafts, result>>
reqVars  == <<pc, call, copy, at, left, read>>
histVars == <<stamp, own, promised, begun>>
vars     == <<rowVars, clock, reqVars, histVars>>

CandidateCalls == {"start", "save", "submit"}
AdminCalls     == {"remove", "assign", "close", "update"}
Calls          == CandidateCalls \cup AdminCalls
ExamStatuses   == {"DRAFT", "PUBLISHED", "RUNNING", "CLOSED", "ARCHIVED"}
(* EXPIRED is declared too, and no code assigns it.                        *)
Statuses       == {"NOT_STARTED", "IN_PROGRESS", "SUBMITTED"}
InFlight       == {"opened", "starting", "submitting", "grading", "reading", "creating",
                   "checking", "saving", "removing", "assigning", "closing"}

Ids       == 1..MaxSessions
Times     == 0..MaxTime
NoSession == [id |-> 0, status |-> "NOT_STARTED", started |-> None, submitted |-> None]
Sessions  == [id : 0..MaxSessions, status : Statuses,
              started : Times \cup {None}, submitted : Times \cup {None}]
NoAnswers == [q \in Questions |-> 0]
Answers   == [Questions -> Nat]
NoResult  == [q \in {} |-> 0]

ASSUME SessionAssumption ==
  /\ IsFiniteSet(Requests) /\ IsFiniteSet(Questions) /\ Questions # {}
  /\ {StartTime, EndTime, Duration, MaxTime, MaxSessions} \subseteq Nat
  /\ StartTime < EndTime /\ StartTime <= MaxTime /\ Duration >= 1 /\ MaxSessions >= 1
  /\ None \notin Nat /\ None \notin Calls

RowsTypeOK ==
  /\ exam    \in ExamStatuses
  /\ session \in Sessions
  /\ created \in 0..MaxSessions
  /\ drafts  \in [Ids -> Answers]
  /\ result  \in [Ids -> Answers \cup {NoResult}]
  /\ clock   \in Times

RequestsTypeOK ==
  /\ pc   \in [Requests -> {"idle", "acked", "failed"} \cup InFlight]
  /\ call \in [Requests -> Calls \cup {None}]
  /\ copy \in [Requests -> Sessions]
  /\ at   \in [Requests -> Times]
  /\ left \in [Requests -> SUBSET Questions]
  /\ read \in [Requests -> Answers]

HistoryTypeOK ==
  /\ stamp    \in Nat
  /\ own      \in [Requests -> Answers]
  /\ promised \in [Ids -> Answers]
  /\ begun    \in [Ids -> Times \cup {None}]

SessionTypeOK == RowsTypeOK /\ RequestsTypeOK /\ HistoryTypeOK

(* The exam has been published.  The candidate has not been assigned yet,  *)
(* or has been, or started the moment the window opened.                   *)
Init ==
  /\ exam = "PUBLISHED"
  /\ \/ clock = 0 /\ session \in {NoSession, [NoSession EXCEPT !.id = 1]}
     \/ /\ clock = StartTime
        /\ session = [id |-> 1, status |-> "IN_PROGRESS", started |-> StartTime,
                      submitted |-> None]
  /\ created  = session.id
  /\ drafts   = [i \in Ids |-> NoAnswers]
  /\ result   = [i \in Ids |-> NoResult]
  /\ pc       = [r \in Requests |-> "idle"]
  /\ call     = [r \in Requests |-> None]
  /\ copy     = [r \in Requests |-> NoSession]
  /\ at       = [r \in Requests |-> 0]
  /\ left     = [r \in Requests |-> {}]
  /\ read     = [r \in Requests |-> NoAnswers]
  /\ stamp    = 0
  /\ own      = [r \in Requests |-> NoAnswers]
  /\ promised = [i \in Ids |-> NoAnswers]
  /\ begun    = [i \in Ids |-> IF i = session.id THEN session.started ELSE None]

-----------------------------------------------------------------------------
(* The steps of a request.                                                 *)

Moves(r, from, to) ==
  /\ pc[r] = from
  /\ pc' = [pc EXCEPT ![r] = to]

(* A request that is answered keeps nothing.                               *)
Forgets(r) ==
  /\ copy' = [copy EXCEPT ![r] = NoSession]
  /\ at'   = [at EXCEPT ![r] = 0]
  /\ left' = [left EXCEPT ![r] = {}]
  /\ read' = [read EXCEPT ![r] = NoAnswers]
  /\ own'  = [own EXCEPT ![r] = NoAnswers]

Ack(r, from)    == Moves(r, from, "acked") /\ Forgets(r)
Refuse(r, from) == Moves(r, from, "failed") /\ Forgets(r)
Keeps           == UNCHANGED <<copy, at, left, read, own>>

ExamOpen == exam \notin {"CLOSED", "ARCHIVED"}

(* A candidate's request begins with ensureCandidateExamOpen; the exam     *)
(* snapshot it reads next never changes.                                   *)
ArriveCandidate(r, c) ==
  /\ pc[r] = "idle"
  /\ c \in CandidateCalls
  /\ call' = [call EXCEPT ![r] = c]
  /\ \/ /\ ExamOpen
        /\ Moves(r, "idle", "opened")
        /\ at'   = [at EXCEPT ![r] = clock]
        /\ UNCHANGED <<copy, left, read, own>>
     \/ /\ ~ExamOpen
        /\ Moves(r, "idle", "failed")
        /\ Keeps
  /\ UNCHANGED <<rowVars, clock, stamp, promised, begun>>

ArriveAdmin(r, c) ==
  /\ c \in {"remove", "assign", "close"}
  /\ call' = [call EXCEPT ![r] = c]
  /\ Moves(r, "idle", "opened")
  /\ UNCHANGED <<rowVars, clock, stamp, promised, begun>> /\ Keeps

(* A store call fails, or the API process dies, at any point.              *)
Abort(r) ==
  /\ pc[r] \in InFlight
  /\ Refuse(r, pc[r])
  /\ UNCHANGED <<rowVars, clock, call, stamp, promised, begun>>

Tick ==
  /\ clock < MaxTime
  /\ clock' = clock + 1
  /\ UNCHANGED <<rowVars, reqVars, histVars>>

Exists == session.id # 0

-----------------------------------------------------------------------------
(* StartExamSession.                                                       *)

StartedCopy_Restart(s, now) == [s EXCEPT !.status = "IN_PROGRESS", !.started = now]

StartedCopy(s, now) ==
  [s EXCEPT !.status = "IN_PROGRESS", !.started = IF @ = None THEN now ELSE @]

(* Lines 330-353: the time was taken after arrival and before the read.    *)
LoadForStart(r) ==
  /\ call[r] = "start"
  /\ \E now \in at[r]..clock :
       LET startable == /\ Exists
                        /\ now <= EndTime /\ now >= StartTime
                        /\ session.status # "SUBMITTED" IN
       \/ /\ startable
          /\ Moves(r, "opened", "starting")
          /\ copy' = [copy EXCEPT ![r] = StartedCopy(session, now)]
          /\ UNCHANGED <<at, left, read, own>>
       \/ ~startable /\ Refuse(r, "opened")
  /\ UNCHANGED <<rowVars, clock, call, stamp, promised, begun>>

UpdatedRow_Whole(row, s) == s

(* UpdateExamSession: the columns of the caller's copy that are not NULL   *)
(* go over the row with the copy's id, if there still is one.              *)
UpdatedRow(row, s) ==
  [row EXCEPT !.status    = s.status,
              !.started   = IF s.started # None THEN s.started ELSE @,
              !.submitted = IF s.submitted # None THEN s.submitted ELSE @]

UpdateExamSession(s) ==
  session' = IF session.id = s.id THEN UpdatedRow(session, s) ELSE session

SaveStart(r) ==
  /\ UpdateExamSession(copy[r])
  /\ Ack(r, "starting")
  /\ begun' = [begun EXCEPT ![copy[r].id] = IF @ = None THEN clock ELSE @]
  /\ UNCHANGED <<exam, created, drafts, result, clock, call, stamp, promised>>

-----------------------------------------------------------------------------
(* SubmitExam.                                                             *)

LoadForSubmit(r) ==
  /\ call[r] = "submit"
  /\ \/ /\ Exists
        /\ Moves(r, "opened", IF session.status = "SUBMITTED" THEN "grading" ELSE "submitting")
        /\ copy' = [copy EXCEPT ![r] = session]
        /\ at'   = [at EXCEPT ![r] = clock]
        /\ UNCHANGED <<left, read, own>>
     \/ ~Exists /\ Refuse(r, "opened")
  /\ UNCHANGED <<rowVars, clock, call, stamp, promised, begun>>

SubmittedCopy_Expired(s, now) == [s EXCEPT !.status = "EXPIRED", !.submitted = now]

SubmittedCopy(s, now) == [s EXCEPT !.status = "SUBMITTED", !.submitted = now]

SaveSubmit(r) ==
  /\ Moves(r, "submitting", "grading")
  /\ \E now \in at[r]..clock :
       /\ UpdateExamSession(SubmittedCopy(copy[r], now))
       /\ copy' = [copy EXCEPT ![r] = SubmittedCopy(copy[r], now)]
  /\ UNCHANGED <<exam, created, drafts, result, clock, call, at, left, read, histVars>>

(* gradeSubmittedSession looks for a result; a look-up that fails is taken *)
(* for none.                                                               *)
LookForResult(r) ==
  /\ \/ Ack(r, "grading") /\ result[copy[r].id] # NoResult
     \/ Moves(r, "grading", "reading") /\ Keeps
  /\ UNCHANGED <<rowVars, clock, call, stamp, promised, begun>>

ReadDrafts(r) ==
  /\ Moves(r, "reading", "creating")
  /\ read' = [read EXCEPT ![r] = drafts[copy[r].id]]
  /\ UNCHANGED <<rowVars, clock, call, copy, at, left, histVars>>

CreateExamResult_Upsert(r) ==
  /\ Ack(r, "creating")
  /\ result' = [result EXCEPT ![copy[r].id] = read[r]]
  /\ UNCHANGED <<exam, session, created, drafts, clock, call, stamp, promised, begun>>

(* One result per session, by the unique index on exam_session_id.         *)
CreateExamResult(r) ==
  /\ Ack(r, "creating")
  /\ result' = [result EXCEPT ![copy[r].id] = IF @ = NoResult THEN read[r] ELSE @]
  /\ UNCHANGED <<exam, session, created, drafts, clock, call, stamp, promised, begun>>

-----------------------------------------------------------------------------
(* SaveAnswers.                                                            *)

LoadForSave(r) ==
  /\ call[r] = "save"
  /\ \/ /\ Exists /\ session.status = "IN_PROGRESS"
        /\ Moves(r, "opened", "checking")
        /\ copy' = [copy EXCEPT ![r] = session]
        /\ UNCHANGED <<at, left, read, own>>
     \/ ~(Exists /\ session.status = "IN_PROGRESS") /\ Refuse(r, "opened")
  /\ UNCHANGED <<rowVars, clock, call, stamp, promised, begun>>

InTime(s) ==
  /\ clock <= EndTime
  /\ s.started # None => clock <= s.started + Duration

(* The deadlines, then the questions of the request's body.                *)
CheckDeadline(r) ==
  /\ \/ /\ InTime(copy[r])
        /\ Moves(r, "checking", "saving")
        /\ \E qs \in SUBSET Questions \ {{}} : left' = [left EXCEPT ![r] = qs]
        /\ UNCHANGED <<copy, at, read, own>>
     \/ ~InTime(copy[r]) /\ Refuse(r, "checking")
  /\ UNCHANGED <<rowVars, clock, call, stamp, promised, begun>>

StoredDraft_IfNew(id, q) == IF drafts[id][q] = 0 THEN stamp + 1 ELSE drafts[id][q]

(* SaveAnswerDraft inserts the draft or replaces it.                       *)
StoredDraft(id, q) == stamp + 1

SaveAnswerDraft(r, q) ==
  /\ pc[r] = "saving"
  /\ q \in left[r]
  /\ drafts' = [drafts EXCEPT ![copy[r].id][q] = StoredDraft(copy[r].id, q)]
  /\ stamp'  = stamp + 1
  /\ own'    = [own EXCEPT ![r][q] = stamp + 1]
  /\ left'   = [left EXCEPT ![r] = @ \ {q}]
  /\ UNCHANGED <<exam, session, created, result, clock, pc, call, copy, at, read, promised,
                 begun>>

SubmitArrived == \E r \in Requests : call[r] = "submit"

(* Every draft is stored: the candidate is told so.                        *)
AckSave(r) ==
  /\ pc[r] = "saving" /\ left[r] = {}
  /\ Ack(r, "saving")
  /\ promised' =
       IF SubmitArrived THEN promised
       ELSE [promised EXCEPT ![copy[r].id] =
               [q \in Questions |-> IF own[r][q] > @[q] THEN own[r][q] ELSE @[q]]]
  /\ UNCHANGED <<rowVars, clock, call, stamp, begun>>

-----------------------------------------------------------------------------
(* RemoveCandidate, and AssignExamTargets for this candidate.              *)

LoadForRemove(r) ==
  /\ call[r] = "remove"
  /\ \/ /\ Exists /\ session.status = "NOT_STARTED"
        /\ Moves(r, "opened", "removing")
        /\ copy' = [copy EXCEPT ![r] = session]
        /\ UNCHANGED <<at, left, read, own>>
     \/ ~(Exists /\ session.status = "NOT_STARTED") /\ Refuse(r, "opened")
  /\ UNCHANGED <<rowVars, clock, call, stamp, promised, begun>>

DeleteExamSession(r) ==
  /\ session' = IF session.id = copy[r].id THEN NoSession ELSE session
  /\ Ack(r, "removing")
  /\ UNCHANGED <<exam, created, drafts, result, clock, call, stamp, promised, begun>>

LoadForAssign(r) ==
  /\ call[r] = "assign"
  /\ \/ Exists /\ Ack(r, "opened")
     \/ ~Exists /\ Moves(r, "opened", "assigning") /\ Keeps
  /\ UNCHANGED <<rowVars, clock, call, stamp, promised, begun>>

(* One session per candidate, by the unique index on snapshot and user.    *)
CreateExamSession(r) ==
  /\ \/ /\ ~Exists /\ created < MaxSessions
        /\ session' = [NoSession EXCEPT !.id = created + 1]
        /\ created' = created + 1
        /\ Ack(r, "assigning")
     \/ Exists /\ Refuse(r, "assigning") /\ UNCHANGED <<session, created>>
  /\ UNCHANGED <<exam, drafts, result, clock, call, stamp, promised, begun>>

-----------------------------------------------------------------------------
(* The exam row.                                                           *)

LoadForClose(r) ==
  /\ call[r] = "close"
  /\ \/ exam \in {"PUBLISHED", "RUNNING"} /\ Moves(r, "opened", "closing") /\ Keeps
     \/ exam \notin {"PUBLISHED", "RUNNING"} /\ Refuse(r, "opened")
  /\ UNCHANGED <<rowVars, clock, call, stamp, promised, begun>>

SaveClosed(r) ==
  /\ exam' = "CLOSED"
  /\ Ack(r, "closing")
  /\ UNCHANGED <<session, created, drafts, result, clock, call, stamp, promised, begun>>

(* UpdateExam stores the status its body names, whatever the row's was.    *)
UpdateExam(r) ==
  /\ Moves(r, "idle", "acked")
  /\ call' = [call EXCEPT ![r] = "update"]
  /\ exam' \in ExamStatuses
  /\ UNCHANGED <<session, created, drafts, result, clock, stamp, promised, begun>>
  /\ Keeps

-----------------------------------------------------------------------------
CandidateStep(r) ==
  \/ \E c \in CandidateCalls : ArriveCandidate(r, c)
  \/ LoadForStart(r) \/ SaveStart(r)
  \/ LoadForSubmit(r) \/ SaveSubmit(r) \/ LookForResult(r) \/ ReadDrafts(r) \/ CreateExamResult(r)
  \/ LoadForSave(r) \/ CheckDeadline(r) \/ AckSave(r)
  \/ \E q \in Questions : SaveAnswerDraft(r, q)

AdminStep(r) ==
  \/ \E c \in AdminCalls : ArriveAdmin(r, c)
  \/ LoadForRemove(r) \/ DeleteExamSession(r) \/ LoadForAssign(r) \/ CreateExamSession(r)
  \/ LoadForClose(r) \/ SaveClosed(r) \/ UpdateExam(r)

Next ==
  \/ \E r \in Requests : CandidateStep(r) \/ AdminStep(r) \/ Abort(r)
  \/ Tick

Spec == Init /\ [][Next]_vars

-----------------------------------------------------------------------------
(* Properties.                                                             *)

SameRow == session.id # 0 /\ session'.id = session.id

(* A session that has a result has been submitted and knows when: no       *)
(* concurrent start, whose copy of the row has no submission time, takes   *)
(* that away.                                                              *)
ResultMeansSubmitted ==
  Exists /\ result[session.id] # NoResult => session.submitted # None

(* Every answer acknowledged before the first submit arrived is graded, or *)
(* one stored after it is: grading never works on an older draft.          *)
AckedAnswersAreGraded ==
  \A i \in Ids : result[i] # NoResult => \A q \in Questions : result[i][q] >= promised[i][q]

(* Whatever stale copies are written back, a session that has begun never  *)
(* goes back to NOT_STARTED and keeps having a start and a submission time.*)
ProgressIsKept ==
  [][SameRow =>
       /\ session.status # "NOT_STARTED" => session'.status # "NOT_STARTED"
       /\ session.started # None => session'.started # None
       /\ session.submitted # None => session'.submitted # None]_vars

(* Whatever starts race and however often a session is resumed, the timer  *)
(* runs from no later than the moment the session was first started.       *)
TimerNeverExtended ==
  Exists /\ session.started # None => session.started <= begun[session.id]

(* The answers that were graded stay the answers that were graded, however *)
(* many submits race or follow and whatever is saved afterwards.           *)
ResultIsFinal ==
  [][\A i \in Ids : result[i] # NoResult => result'[i] = result[i]]_vars

-----------------------------------------------------------------------------
(* Why these hold: an inductive invariant.                                 *)

HoldsCopy == {"starting", "submitting", "grading", "reading", "creating", "checking", "saving",
              "removing"}
Grading   == {"grading", "reading", "creating"}

(* Ids are handed out in turn, and nothing refers to one not handed out.   *)
IdsAgree ==
  /\ session.id <= created
  /\ \A i \in Ids : i > created => result[i] = NoResult /\ begun[i] = None
  /\ \A r \in Requests : pc[r] \in HoldsCopy => copy[r].id \in 1..created

(* Who grades has a session that was submitted, or that is gone.           *)
SubmissionAgrees ==
  /\ session.status = "SUBMITTED" => session.submitted # None
  /\ \A r \in Requests : pc[r] \in Grading /\ copy[r].id = session.id => session.submitted # None
  /\ ResultMeansSubmitted

(* Every start time about, in the row or in a copy still to be written, is *)
(* one taken before the session was first started.                         *)
TimerAgrees ==
  /\ Exists => (session.started = None <=> begun[session.id] = None)
  /\ TimerNeverExtended
  /\ \A r \in Requests :
       /\ pc[r] = "starting" =>
            /\ copy[r].status = "IN_PROGRESS" /\ copy[r].started # None
            /\ copy[r].started <= IF begun[copy[r].id] = None THEN clock ELSE begun[copy[r].id]
       /\ pc[r] = "submitting" /\ copy[r].started # None =>
            begun[copy[r].id] # None /\ copy[r].started <= begun[copy[r].id]

(* Only submits grade, so that no promise is made once grading may read.   *)
SubmitsAgree ==
  /\ \A r \in Requests : pc[r] = "idle" => call[r] = None
  /\ \A r \in Requests : pc[r] \in Grading \cup {"submitting"} => call[r] = "submit"
  /\ \A i \in Ids : result[i] # NoResult => SubmitArrived

(* Stamps grow: an answer stored is never ahead of the draft of its        *)
(* question.                                                               *)
StampsAgree ==
  /\ \A i \in Ids, q \in Questions : drafts[i][q] <= stamp
  /\ \A r \in Requests, q \in Questions :
       /\ pc[r] = "saving" => own[r][q] <= drafts[copy[r].id][q]
       /\ pc[r] # "saving" => own[r][q] = 0

(* A promise is never ahead of the draft, of the drafts read for grading,  *)
(* or of what was graded.                                                  *)
PromisesAgree ==
  /\ \A i \in Ids, q \in Questions : promised[i][q] <= drafts[i][q]
  /\ \A r \in Requests, q \in Questions :
       pc[r] = "creating" => promised[copy[r].id][q] <= read[r][q]
  /\ AckedAnswersAreGraded

(* Rows, copies, timers and answers agree whatever the requests in flight: *)
(* with the types, every safety property above follows from it.            *)
SessionInv ==
  /\ IdsAgree /\ SubmissionAgrees /\ TimerAgrees
  /\ SubmitsAgree /\ StampsAgree /\ PromisesAgree

-----------------------------------------------------------------------------
(* What documentation and tests promise and interleaving denies.           *)

(* A submitted session stays submitted.                                    *)
SubmittedIsFinal ==
  [][SameRow /\ session.status = "SUBMITTED" => session'.status = "SUBMITTED"]_vars
=============================================================================
