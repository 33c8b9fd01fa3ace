-------------------------- MODULE ExamSessionProofs --------------------------
(***************************************************************************)
(* What ExamSession promises, for any number of requests, questions, clock *)
(* ticks and reassignments.  SessionTypeOK and SessionInv are inductive    *)
(* together: the conjuncts of SessionInv follow one by one from what the   *)
(* steps of a request do to the rows (RowIs, DraftIs, PromiseIs, BegunIs)  *)
(* and to its copy (CopyTaken, CameFrom), everything else staying put      *)
(* (OthersKeep, RowKept, AnswersKept).                                     *)
(***************************************************************************)
EXTENDS ExamSession, TLAPS

-----------------------------------------------------------------------------
(* The records: a session row, and what start, submit and update make of   *)
(* one.                                                                    *)

(* The row of no session and the drafts of no answer are of their types.   *)
LEMMA Blank ==
  NoSession \in Sessions /\ NoAnswers \in Answers
BY SessionAssumption DEF NoSession, Sessions, Statuses, NoAnswers, Answers

(* The columns of a session row.                                           *)
LEMMA ColumnsOf ==
  ASSUME NEW s \in Sessions
  PROVE  /\ s.id \in 0..MaxSessions /\ s.status \in Statuses
         /\ s.started \in Times \cup {None} /\ s.submitted \in Times \cup {None}
BY DEF Sessions

(* StartExamSession writes the status, and the start time once.            *)
LEMMA StartedCopyIs ==
  ASSUME NEW s \in Sessions, NEW now \in Times
  PROVE  /\ StartedCopy(s, now) \in Sessions
         /\ StartedCopy(s, now).id = s.id
         /\ StartedCopy(s, now).status = "IN_PROGRESS"
         /\ StartedCopy(s, now).started = IF s.started = None THEN now ELSE s.started
         /\ StartedCopy(s, now).submitted = s.submitted
BY SessionAssumption DEF StartedCopy, Sessions, Statuses, Times

(* SubmitExam writes the status and the submission time.                   *)
LEMMA SubmittedCopyIs ==
  ASSUME NEW s \in Sessions, NEW now \in Times
  PROVE  /\ SubmittedCopy(s, now) \in Sessions
         /\ SubmittedCopy(s, now).id = s.id
         /\ SubmittedCopy(s, now).status = "SUBMITTED"
         /\ SubmittedCopy(s, now).started = s.started
         /\ SubmittedCopy(s, now).submitted = now
BY SessionAssumption DEF SubmittedCopy, Sessions, Statuses, Times

(* UpdateExamSession overwrites the columns the copy has values for.       *)
LEMMA UpdatedRowIs ==
  ASSUME NEW row \in Sessions, NEW s \in Sessions
  PROVE  /\ UpdatedRow(row, s) \in Sessions
         /\ UpdatedRow(row, s).id = row.id
         /\ UpdatedRow(row, s).status = s.status
         /\ UpdatedRow(row, s).started = IF s.started # None THEN s.started ELSE row.started
         /\ UpdatedRow(row, s).submitted =
              IF s.submitted # None THEN s.submitted ELSE row.submitted
BY SessionAssumption DEF UpdatedRow, Sessions, Statuses, Times

(* A row just created has an id and nothing else.                          *)
LEMMA NewSessionIs ==
  ASSUME NEW i \in 0..MaxSessions
  PROVE  /\ [NoSession EXCEPT !.id = i] \in Sessions
         /\ [NoSession EXCEPT !.id = i].id = i
         /\ [NoSession EXCEPT !.id = i].status = "NOT_STARTED"
         /\ [NoSession EXCEPT !.id = i].started = None
         /\ [NoSession EXCEPT !.id = i].submitted = None
BY SessionAssumption DEF NoSession, Sessions, Statuses

(* A time taken between two steps of a request is one of the clock.        *)
LEMMA NowIsTime ==
  ASSUME RowsTypeOK, RequestsTypeOK, NEW r \in Requests, NEW now \in at[r]..clock
  PROVE  now \in Times
BY SessionAssumption DEF RowsTypeOK, RequestsTypeOK, Times

(* What a request keeps after its answer is of the right types.            *)
LEMMA ForgetsTyped ==
  ASSUME RequestsTypeOK, HistoryTypeOK, NEW r \in Requests, Forgets(r)
  PROVE  /\ copy' \in [Requests -> Sessions] /\ at' \in [Requests -> Times]
         /\ left' \in [Requests -> SUBSET Questions] /\ read' \in [Requests -> Answers]
         /\ own' \in [Requests -> Answers]
BY Blank, SessionAssumption DEF Forgets, RequestsTypeOK, HistoryTypeOK, Times

(* A copy in use has an id that indexes drafts, results and histories.     *)
LEMMA CopyIsOfARow ==
  ASSUME SessionTypeOK, IdsAgree, NEW r \in Requests, pc[r] \in HoldsCopy
  PROVE  /\ copy[r].id \in Ids /\ copy[r].id <= created
         /\ drafts[copy[r].id] \in Answers
         /\ promised[copy[r].id] \in Answers
         /\ begun[copy[r].id] \in Times \cup {None}
         /\ result[copy[r].id] \in Answers \cup {NoResult}
BY SessionAssumption DEF SessionTypeOK, RowsTypeOK, HistoryTypeOK, IdsAgree, Ids

-----------------------------------------------------------------------------
(* Typing.                                                                 *)

(* Typing of the requests, over the candidate's handlers.                  *)
LEMMA CandidateRequestsTyped ==
  ASSUME SessionTypeOK, IdsAgree, NEW r \in Requests, CandidateStep(r)
  PROVE  RequestsTypeOK'
<1> USE DEF SessionTypeOK, RequestsTypeOK, Moves, InFlight
<1>1. ASSUME NEW c \in CandidateCalls, ArriveCandidate(r, c)
      PROVE  RequestsTypeOK'
  BY <1>1 DEF ArriveCandidate, Calls, Keeps, RowsTypeOK
<1>2. CASE LoadForStart(r)
  <2>1. PICK now \in at[r]..clock :
          \/ /\ Moves(r, "opened", "starting")
             /\ copy' = [copy EXCEPT ![r] = StartedCopy(session, now)]
             /\ UNCHANGED <<at, left, read, own>>
          \/ Refuse(r, "opened")
    BY <1>2 DEF LoadForStart
  <2>2. StartedCopy(session, now) \in Sessions
    BY NowIsTime, StartedCopyIs DEF RowsTypeOK
  <2>3. call' = call
    BY <1>2 DEF LoadForStart
  <2>4. QED
    BY <2>1, <2>2, <2>3, ForgetsTyped DEF Refuse
<1>3. CASE SaveStart(r)
  BY <1>3, ForgetsTyped DEF SaveStart, Ack
<1>4. CASE LoadForSubmit(r)
  BY <1>4, ForgetsTyped DEF LoadForSubmit, Refuse, RowsTypeOK
<1>5. CASE SaveSubmit(r)
  <2>1. PICK now \in at[r]..clock : copy' = [copy EXCEPT ![r] = SubmittedCopy(copy[r], now)]
    BY <1>5 DEF SaveSubmit
  <2>2. SubmittedCopy(copy[r], now) \in Sessions
    BY NowIsTime, SubmittedCopyIs
  <2>3. QED
    BY <1>5, <2>1, <2>2 DEF SaveSubmit
<1>6. CASE LookForResult(r)
  BY <1>6, ForgetsTyped DEF LookForResult, Ack, Keeps
<1>7. CASE ReadDrafts(r)
  <2>1. drafts[copy[r].id] \in Answers
    BY <1>7, CopyIsOfARow DEF ReadDrafts, HoldsCopy
  <2>2. QED
    BY <1>7, <2>1 DEF ReadDrafts
<1>8. CASE CreateExamResult(r)
  BY <1>8, ForgetsTyped DEF CreateExamResult, Ack
<1>9. CASE LoadForSave(r)
  BY <1>9, ForgetsTyped DEF LoadForSave, Refuse, RowsTypeOK
<1>10. CASE CheckDeadline(r)
  BY <1>10, ForgetsTyped DEF CheckDeadline, Refuse
<1>11. ASSUME NEW q \in Questions, SaveAnswerDraft(r, q)
       PROVE  RequestsTypeOK'
  BY <1>11 DEF SaveAnswerDraft
<1>12. CASE AckSave(r)
  BY <1>12, ForgetsTyped DEF AckSave, Ack
<1>13. QED
  BY <1>1, <1>2, <1>3, <1>4, <1>5, <1>6, <1>7, <1>8, <1>9, <1>10, <1>11, <1>12 DEF CandidateStep

(* Typing of the requests, over the administrator's handlers.              *)
LEMMA AdminRequestsTyped ==
  ASSUME SessionTypeOK, NEW r \in Requests, AdminStep(r) \/ Abort(r)
  PROVE  RequestsTypeOK'
<1> USE DEF SessionTypeOK, RequestsTypeOK, Moves, InFlight
<1>1. ASSUME NEW c \in AdminCalls, ArriveAdmin(r, c)
      PROVE  RequestsTypeOK'
  BY <1>1 DEF ArriveAdmin, Calls, Keeps
<1>2. CASE LoadForRemove(r)
  BY <1>2, ForgetsTyped DEF LoadForRemove, Refuse, RowsTypeOK
<1>3. CASE DeleteExamSession(r)
  BY <1>3, ForgetsTyped DEF DeleteExamSession, Ack
<1>4. CASE LoadForAssign(r)
  BY <1>4, ForgetsTyped DEF LoadForAssign, Ack, Keeps
<1>5. CASE CreateExamSession(r)
  BY <1>5, ForgetsTyped DEF CreateExamSession, Ack, Refuse
<1>6. CASE LoadForClose(r)
  BY <1>6, ForgetsTyped DEF LoadForClose, Refuse, Keeps
<1>7. CASE SaveClosed(r)
  BY <1>7, ForgetsTyped DEF SaveClosed, Ack
<1>8. CASE UpdateExam(r)
  BY <1>8 DEF UpdateExam, Keeps, Calls, AdminCalls
<1>9. CASE Abort(r)
  BY <1>9, ForgetsTyped DEF Abort, Refuse
<1>10. QED
  BY <1>1, <1>2, <1>3, <1>4, <1>5, <1>6, <1>7, <1>8, <1>9 DEF AdminStep

(* Typing of the rows.                                                     *)
LEMMA RowsTyped ==
  ASSUME SessionTypeOK, IdsAgree, Next
  PROVE  RowsTypeOK'
<1> USE DEF SessionTypeOK, RowsTypeOK
<1>1. ASSUME NEW r \in Requests, SaveStart(r)
      PROVE  RowsTypeOK'
  <2>1. session' \in Sessions
    BY <1>1, UpdatedRowIs DEF SaveStart, UpdateExamSession, RequestsTypeOK
  <2>2. QED
    BY <1>1, <2>1 DEF SaveStart
<1>2. ASSUME NEW r \in Requests, SaveSubmit(r)
      PROVE  RowsTypeOK'
  <2>1. PICK now \in at[r]..clock : UpdateExamSession(SubmittedCopy(copy[r], now))
    BY <1>2 DEF SaveSubmit
  <2>2. SubmittedCopy(copy[r], now) \in Sessions
    BY NowIsTime, SubmittedCopyIs DEF RequestsTypeOK
  <2>3. session' \in Sessions
    BY <2>1, <2>2, UpdatedRowIs DEF UpdateExamSession
  <2>4. QED
    BY <1>2, <2>3 DEF SaveSubmit
<1>3. ASSUME NEW r \in Requests, CreateExamResult(r)
      PROVE  RowsTypeOK'
  BY <1>3 DEF CreateExamResult, RequestsTypeOK
<1>4. ASSUME NEW r \in Requests, NEW q \in Questions, SaveAnswerDraft(r, q)
      PROVE  RowsTypeOK'
  <2>1. [drafts[copy[r].id] EXCEPT ![q] = stamp + 1] \in Answers
    BY <1>4, CopyIsOfARow DEF SaveAnswerDraft, HoldsCopy, Answers, HistoryTypeOK
  <2>2. drafts' \in [Ids -> Answers]
    BY <1>4, <2>1 DEF SaveAnswerDraft, StoredDraft
  <2>3. QED
    BY <1>4, <2>2 DEF SaveAnswerDraft
<1>5. ASSUME NEW r \in Requests, DeleteExamSession(r)
      PROVE  RowsTypeOK'
  BY <1>5, Blank DEF DeleteExamSession
<1>6. ASSUME NEW r \in Requests, CreateExamSession(r)
      PROVE  RowsTypeOK'
  <2>1. CASE session' = session /\ created' = created
    BY <1>6, <2>1 DEF CreateExamSession
  <2>2. CASE /\ created < MaxSessions
             /\ session' = [NoSession EXCEPT !.id = created + 1] /\ created' = created + 1
    <3>1. created + 1 \in 0..MaxSessions
      BY <2>2, SessionAssumption
    <3>2. QED
      BY <1>6, <2>2, <3>1, NewSessionIs DEF CreateExamSession
  <2>3. QED
    BY <1>6, <2>1, <2>2 DEF CreateExamSession
<1>7. ASSUME NEW r \in Requests, SaveClosed(r) \/ UpdateExam(r)
      PROVE  RowsTypeOK'
  BY <1>7 DEF SaveClosed, UpdateExam, ExamStatuses
<1>8. CASE Tick
  BY <1>8, SessionAssumption DEF Tick, Times, rowVars
<1>9. ASSUME UNCHANGED <<rowVars, clock>>
      PROVE  RowsTypeOK'
  BY <1>9 DEF rowVars
<1>10. ASSUME NEW r \in Requests, CandidateStep(r)
       PROVE  RowsTypeOK'
  BY <1>10, <1>1, <1>2, <1>3, <1>4, <1>9
     DEF CandidateStep, ArriveCandidate, LoadForStart, LoadForSubmit, LookForResult, ReadDrafts,
         LoadForSave, CheckDeadline, AckSave
<1>11. ASSUME NEW r \in Requests, AdminStep(r) \/ Abort(r)
       PROVE  RowsTypeOK'
  BY <1>11, <1>5, <1>6, <1>7, <1>9
     DEF AdminStep, ArriveAdmin, LoadForRemove, LoadForAssign, LoadForClose, Abort
<1>12. QED
  BY <1>8, <1>10, <1>11 DEF Next

(* Typing of the histories.                                                *)
LEMMA HistoryTyped ==
  ASSUME SessionTypeOK, IdsAgree, Next
  PROVE  HistoryTypeOK'
<1> USE DEF SessionTypeOK, HistoryTypeOK
<1>1. ASSUME NEW r \in Requests, SaveStart(r)
      PROVE  HistoryTypeOK'
  <2>1. begun' \in [Ids -> Times \cup {None}]
    BY <1>1 DEF SaveStart, RowsTypeOK
  <2>2. QED
    BY <1>1, <2>1, ForgetsTyped DEF SaveStart, Ack
<1>2. ASSUME NEW r \in Requests, NEW q \in Questions, SaveAnswerDraft(r, q)
      PROVE  HistoryTypeOK'
  BY <1>2 DEF SaveAnswerDraft, Answers
<1>3. ASSUME NEW r \in Requests, AckSave(r)
      PROVE  HistoryTypeOK'
  <2>1. [q \in Questions |-> IF own[r][q] > promised[copy[r].id][q]
                             THEN own[r][q] ELSE promised[copy[r].id][q]] \in Answers
    BY <1>3, CopyIsOfARow DEF AckSave, HoldsCopy, Answers
  <2>2. promised' \in [Ids -> Answers]
    BY <1>3, <2>1 DEF AckSave
  <2>3. QED
    BY <1>3, <2>2, ForgetsTyped DEF AckSave, Ack
<1>4. ASSUME UNCHANGED <<stamp, promised, begun>>, NEW r \in Requests, Forgets(r) \/ own' = own
      PROVE  HistoryTypeOK'
  BY <1>4, ForgetsTyped
<1>5. CASE Tick
  BY <1>5 DEF Tick, histVars
<1>6. ASSUME NEW r \in Requests, CandidateStep(r)
      PROVE  HistoryTypeOK'
  BY <1>6, <1>1, <1>2, <1>3, <1>4
     DEF CandidateStep, ArriveCandidate, LoadForStart, LoadForSubmit, SaveSubmit, LookForResult,
         ReadDrafts, CreateExamResult, LoadForSave, CheckDeadline, Ack, Refuse, Keeps, histVars
<1>7. ASSUME NEW r \in Requests, AdminStep(r) \/ Abort(r)
      PROVE  HistoryTypeOK'
  BY <1>7, <1>4
     DEF AdminStep, ArriveAdmin, LoadForRemove, DeleteExamSession, LoadForAssign,
         CreateExamSession, LoadForClose, SaveClosed, UpdateExam, Abort, Ack, Refuse, Keeps
<1>8. QED
  BY <1>5, <1>6, <1>7 DEF Next

(* Typing is preserved where ids agree.                                    *)
LEMMA SessionTypeInv ==
  ASSUME SessionTypeOK, IdsAgree, [Next]_vars
  PROVE  SessionTypeOK'
<1>1. CASE UNCHANGED vars
  BY <1>1 DEF vars, rowVars, reqVars, histVars, SessionTypeOK, RowsTypeOK, RequestsTypeOK,
              HistoryTypeOK
<1>2. CASE Tick
  <2>1. RequestsTypeOK'
    BY <1>2 DEF Tick, reqVars, SessionTypeOK, RequestsTypeOK
  <2>2. QED
    BY <1>2, <2>1, RowsTyped, HistoryTyped DEF Next, SessionTypeOK
<1>3. ASSUME NEW r \in Requests, CandidateStep(r) \/ AdminStep(r) \/ Abort(r)
      PROVE  SessionTypeOK'
  BY <1>3, RowsTyped, HistoryTyped, CandidateRequestsTyped, AdminRequestsTyped
     DEF Next, SessionTypeOK
<1>4. QED
  BY <1>1, <1>2, <1>3 DEF Next

-----------------------------------------------------------------------------
(* What a step of a request leaves alone, and what it makes of the rest.   *)

(* A step of a request, of whoever sent it.                                *)
Step(r) == CandidateStep(r) \/ AdminStep(r) \/ Abort(r)

(* A step of a request touches nothing that another request keeps.         *)
LEMMA OthersKeep ==
  ASSUME SessionTypeOK, NEW r \in Requests, Step(r), NEW x \in Requests, x # r
  PROVE  /\ pc'[x] = pc[x] /\ call'[x] = call[x] /\ copy'[x] = copy[x]
         /\ read'[x] = read[x] /\ own'[x] = own[x]
<1> USE DEF SessionTypeOK, RequestsTypeOK, HistoryTypeOK, Moves, Forgets, Ack, Refuse, Keeps
<1>1. CASE CandidateStep(r)
  BY <1>1 DEF CandidateStep, ArriveCandidate, LoadForStart, SaveStart, LoadForSubmit, SaveSubmit,
              LookForResult, ReadDrafts, CreateExamResult, LoadForSave, CheckDeadline, AckSave,
              SaveAnswerDraft, histVars
<1>2. CASE AdminStep(r) \/ Abort(r)
  BY <1>2 DEF AdminStep, ArriveAdmin, LoadForRemove, DeleteExamSession, LoadForAssign,
              CreateExamSession, LoadForClose, SaveClosed, UpdateExam, Abort
<1>3. QED
  BY <1>1, <1>2 DEF Step

(* The only steps that touch the session row.                              *)
LEMMA RowKept ==
  ASSUME NEW r \in Requests, Step(r),
         ~SaveStart(r), ~SaveSubmit(r), ~DeleteExamSession(r), ~CreateExamSession(r)
  PROVE  session' = session /\ created' = created /\ begun' = begun
BY DEF Step, CandidateStep, ArriveCandidate, LoadForStart, LoadForSubmit,
       LookForResult, ReadDrafts, CreateExamResult, LoadForSave, CheckDeadline, AckSave,
       SaveAnswerDraft, AdminStep, ArriveAdmin, LoadForRemove, LoadForAssign,
       LoadForClose, SaveClosed, UpdateExam, Abort, rowVars, histVars

(* The only steps that touch drafts, results and promises.                 *)
LEMMA AnswersKept ==
  ASSUME NEW r \in Requests, Step(r)
  PROVE  /\ ~CreateExamResult(r) => result' = result
         /\ ~(\E q \in Questions : SaveAnswerDraft(r, q)) => drafts' = drafts /\ stamp' = stamp
         /\ ~AckSave(r) => promised' = promised
         /\ clock' = clock
BY DEF Step, CandidateStep, ArriveCandidate, LoadForStart, SaveStart, LoadForSubmit, SaveSubmit,
       LookForResult, ReadDrafts, CreateExamResult, LoadForSave, CheckDeadline, AckSave,
       SaveAnswerDraft, AdminStep, ArriveAdmin, LoadForRemove, DeleteExamSession, LoadForAssign,
       CreateExamSession, LoadForClose, SaveClosed, UpdateExam, Abort, rowVars, histVars

(* What becomes of the session row, whoever acts.                          *)
LEMMA RowIs ==
  ASSUME SessionTypeOK, NEW r \in Requests, Step(r)
  PROVE  \/ session' = session /\ created' = created
         \/ session' = NoSession /\ created' = created
         \/ /\ session' = [NoSession EXCEPT !.id = created + 1] /\ created' = created + 1
            /\ created < MaxSessions /\ CreateExamSession(r)
         \/ SaveStart(r) /\ created' = created
         \/ SaveSubmit(r) /\ created' = created
BY RowKept DEF SaveStart, SaveSubmit, DeleteExamSession, CreateExamSession

(* Where a request stands, and the id of the copy it holds there.          *)
LEMMA CopyTaken ==
  ASSUME SessionTypeOK, NEW r \in Requests, Step(r), pc'[r] \in HoldsCopy
  PROVE  \/ pc[r] \in HoldsCopy /\ copy'[r].id = copy[r].id
         \/ session.id # 0 /\ copy'[r].id = session.id /\ session' = session /\ created' = created
<1> USE DEF SessionTypeOK, RequestsTypeOK, HoldsCopy, Moves, Forgets, Ack, Refuse, Keeps
<1>1. CASE LoadForStart(r)
  <2>1. PICK now \in at[r]..clock :
               Exists /\ copy' = [copy EXCEPT ![r] = StartedCopy(session, now)]
    BY <1>1 DEF LoadForStart
  <2>2. now \in Times /\ session \in Sessions
    BY NowIsTime DEF RowsTypeOK
  <2>3. copy'[r].id = session.id
    BY <2>1, <2>2, StartedCopyIs
  <2>4. QED
    BY <1>1, <2>1, <2>3 DEF LoadForStart, Exists, rowVars
<1>2. CASE SaveSubmit(r)
  <2>1. PICK now \in at[r]..clock : copy' = [copy EXCEPT ![r] = SubmittedCopy(copy[r], now)]
    BY <1>2 DEF SaveSubmit
  <2>2. now \in Times
    BY NowIsTime
  <2>3. QED
    BY <1>2, <2>1, <2>2, SubmittedCopyIs DEF SaveSubmit
<1>3. CASE LoadForSubmit(r) \/ LoadForSave(r) \/ LoadForRemove(r)
  BY <1>3 DEF LoadForSubmit, LoadForSave, LoadForRemove, Exists, rowVars
<1>4. CASE /\ CandidateStep(r)
           /\ ~LoadForStart(r) /\ ~SaveSubmit(r) /\ ~LoadForSubmit(r) /\ ~LoadForSave(r)
  BY <1>4 DEF CandidateStep, ArriveCandidate, SaveStart,
              LookForResult, ReadDrafts, CreateExamResult, CheckDeadline, AckSave,
              SaveAnswerDraft, histVars
<1>5. CASE (AdminStep(r) \/ Abort(r)) /\ ~LoadForRemove(r)
  BY <1>5 DEF AdminStep, ArriveAdmin, DeleteExamSession, LoadForAssign,
              CreateExamSession, LoadForClose, SaveClosed, UpdateExam, Abort
<1>6. QED
  BY <1>1, <1>2, <1>3, <1>4, <1>5 DEF Step, AdminStep

(* SaveStart replaces columns of the row its copy was read from, if it is  *)
(* still there.                                                            *)
LEMMA SavedStartIs ==
  ASSUME SessionTypeOK, NEW r \in Requests, SaveStart(r)
  PROVE  /\ session'.id = session.id
         /\ session.id # copy[r].id => session' = session
         /\ session.id = copy[r].id =>
              /\ session'.status = copy[r].status
              /\ session'.started =
                   IF copy[r].started # None THEN copy[r].started ELSE session.started
              /\ session'.submitted =
                   IF copy[r].submitted # None THEN copy[r].submitted ELSE session.submitted
BY UpdatedRowIs DEF SaveStart, UpdateExamSession, SessionTypeOK, RowsTypeOK, RequestsTypeOK

(* So does SaveSubmit, which always leaves a submission time.              *)
LEMMA SavedSubmitIs ==
  ASSUME SessionTypeOK, NEW r \in Requests, SaveSubmit(r)
  PROVE  /\ session'.id = session.id
         /\ session.id # copy[r].id => session' = session
         /\ session.id = copy[r].id =>
              /\ session'.status = "SUBMITTED"
              /\ session'.started =
                   IF copy[r].started # None THEN copy[r].started ELSE session.started
              /\ session'.submitted # None
<1>1. PICK now \in at[r]..clock : UpdateExamSession(SubmittedCopy(copy[r], now))
  BY DEF SaveSubmit
<1>2. now \in Times /\ now # None
  BY NowIsTime, SessionAssumption DEF SessionTypeOK, Times
<1>3. session \in Sessions /\ copy[r] \in Sessions
  BY DEF SessionTypeOK, RowsTypeOK, RequestsTypeOK
<1>4. QED
  BY <1>1, <1>2, <1>3, SubmittedCopyIs, UpdatedRowIs DEF UpdateExamSession

(* The copy SaveSubmit leaves is of the same row.                          *)
LEMMA SubmittedCopied ==
  ASSUME SessionTypeOK, NEW r \in Requests, SaveSubmit(r)
  PROVE  copy'[r].id = copy[r].id
<1>1. PICK now \in at[r]..clock : copy' = [copy EXCEPT ![r] = SubmittedCopy(copy[r], now)]
  BY DEF SaveSubmit
<1>2. now \in Times
  BY NowIsTime DEF SessionTypeOK
<1>3. QED
  BY <1>1, <1>2, SubmittedCopyIs DEF SessionTypeOK, RequestsTypeOK

-----------------------------------------------------------------------------
(* The conjuncts of the invariant.                                         *)

(* A step keeps the ids in agreement.                                      *)
LEMMA IdsInv ==
  ASSUME SessionTypeOK, SessionInv, NEW r \in Requests, Step(r)
  PROVE  IdsAgree'
<1> USE DEF SessionInv, IdsAgree
<1>1. created \in 0..MaxSessions /\ created' \in 0..MaxSessions /\ created <= created'
  BY RowIs, SessionAssumption DEF SessionTypeOK, RowsTypeOK
<1>2. session'.id <= created'
  BY RowIs, <1>1, SavedStartIs, SavedSubmitIs, NewSessionIs, SessionAssumption
     DEF NoSession, SessionTypeOK, RowsTypeOK, Sessions
<1>3. ASSUME NEW i \in Ids, i > created'
      PROVE  result'[i] = NoResult /\ begun'[i] = None
  <2>1. result[i] = NoResult /\ begun[i] = None
    BY <1>1, <1>3 DEF Ids
  <2>2. result'[i] = NoResult
    <3>1. CASE CreateExamResult(r)
      <4>1. copy[r].id <= created
        BY <3>1, CopyIsOfARow DEF CreateExamResult, Ack, Moves, HoldsCopy
      <4>2. copy[r].id # i
        BY <4>1, <1>1, <1>3, CopyIsOfARow DEF Ids
      <4>3. QED
        BY <2>1, <3>1, <4>2 DEF CreateExamResult, SessionTypeOK, RowsTypeOK
    <3>2. QED
      BY <2>1, <3>1, AnswersKept
  <2>3. begun'[i] = None
    <3>1. CASE SaveStart(r)
      <4>1. copy[r].id <= created /\ copy[r].id \in Ids
        BY <3>1, CopyIsOfARow DEF SaveStart, Ack, Moves, HoldsCopy
      <4>2. copy[r].id # i
        BY <4>1, <1>1, <1>3 DEF Ids
      <4>3. QED
        BY <2>1, <3>1, <4>2 DEF SaveStart, SessionTypeOK, HistoryTypeOK
    <3>2. QED
      BY <2>1, <3>1, RowKept DEF SaveSubmit, DeleteExamSession, CreateExamSession, histVars
  <2>4. QED
    BY <2>2, <2>3
<1>4. ASSUME NEW x \in Requests, pc'[x] \in HoldsCopy
      PROVE  copy'[x].id \in 1..created'
  <2>1. CASE x = r
    BY <2>1, <1>1, <1>4, CopyTaken DEF SessionTypeOK, RowsTypeOK, Sessions
  <2>2. CASE x # r
    BY <2>2, <1>1, <1>4, OthersKeep
  <2>3. QED
    BY <2>1, <2>2
<1>5. QED
  BY <1>2, <1>3, <1>4

(* Where each step leads, for the places the invariant speaks of.          *)
LEMMA CameFrom ==
  ASSUME SessionTypeOK, NEW r \in Requests, Step(r)
  PROVE  /\ pc'[r] = "starting" => LoadForStart(r)
         /\ pc'[r] = "submitting" => LoadForSubmit(r)
         /\ pc'[r] = "grading" => LoadForSubmit(r) \/ SaveSubmit(r)
         /\ pc'[r] = "reading" => LookForResult(r)
         /\ pc'[r] = "creating" => ReadDrafts(r)
         /\ pc'[r] = "saving" => CheckDeadline(r) \/ \E q \in Questions : SaveAnswerDraft(r, q)
         /\ pc'[r] # "idle"
<1> USE DEF SessionTypeOK, RequestsTypeOK, Moves, Ack, Refuse
<1>1. CASE CandidateStep(r)
  BY <1>1 DEF CandidateStep, ArriveCandidate, LoadForStart, SaveStart, LoadForSubmit, SaveSubmit,
              LookForResult, ReadDrafts, CreateExamResult, LoadForSave, CheckDeadline, AckSave,
              SaveAnswerDraft
<1>2. CASE AdminStep(r) \/ Abort(r)
  BY <1>2 DEF AdminStep, ArriveAdmin, LoadForRemove, DeleteExamSession, LoadForAssign,
              CreateExamSession, LoadForClose, SaveClosed, UpdateExam, Abort
<1>3. QED
  BY <1>1, <1>2 DEF Step

(* A call is chosen on arrival and stays.                                  *)
LEMMA CallKept ==
  ASSUME SessionTypeOK, NEW r \in Requests, Step(r), pc[r] # "idle"
  PROVE  call'[r] = call[r]
<1>1. CASE CandidateStep(r)
  BY <1>1 DEF CandidateStep, ArriveCandidate, LoadForStart, SaveStart, LoadForSubmit, SaveSubmit,
              LookForResult, ReadDrafts, CreateExamResult, LoadForSave, CheckDeadline, AckSave,
              SaveAnswerDraft
<1>2. CASE AdminStep(r) \/ Abort(r)
  BY <1>2 DEF AdminStep, ArriveAdmin, LoadForRemove, DeleteExamSession, LoadForAssign,
              CreateExamSession, LoadForClose, SaveClosed, UpdateExam, Abort, Moves
<1>3. QED
  BY <1>1, <1>2 DEF Step

(* A step keeps grading to submits.                                        *)
LEMMA SubmitsInv ==
  ASSUME SessionTypeOK, SessionInv, NEW r \in Requests, Step(r)
  PROVE  SubmitsAgree'
<1> USE DEF SessionInv, SubmitsAgree
<1>1. ASSUME NEW x \in Requests, pc'[x] = "idle"
      PROVE  call'[x] = None
  BY <1>1, CameFrom, OthersKeep
<1>2. ASSUME NEW x \in Requests, pc'[x] \in Grading \cup {"submitting"}
      PROVE  call'[x] = "submit"
  <2>1. CASE x = r
    <3>1. LoadForSubmit(r) \/ SaveSubmit(r) \/ LookForResult(r) \/ ReadDrafts(r)
      BY <1>2, <2>1, CameFrom DEF Grading
    <3>2. QED
      BY <2>1, <3>1 DEF LoadForSubmit, SaveSubmit, LookForResult, ReadDrafts, Grading, Moves, Ack
  <2>2. QED
    BY <1>2, <2>1, OthersKeep
<1>3. SubmitArrived => SubmitArrived'
  BY OthersKeep, CallKept, SessionAssumption DEF SubmitArrived, Calls, CandidateCalls
<1>4. ASSUME NEW i \in Ids, result'[i] # NoResult
      PROVE  SubmitArrived'
  <2>1. CASE result[i] # NoResult
    BY <1>3, <2>1
  <2>2. CASE CreateExamResult(r)
    BY <2>2, <1>3 DEF CreateExamResult, Ack, Moves, Grading, SubmitArrived
  <2>3. QED
    BY <1>4, <2>1, <2>2, AnswersKept
<1>5. QED
  BY <1>1, <1>2, <1>4

(* A step keeps submission times where there are results or graders.       *)
LEMMA SubmissionInv ==
  ASSUME SessionTypeOK, SessionInv, NEW r \in Requests, Step(r)
  PROVE  SubmissionAgrees'
<1> USE DEF SessionInv, SubmissionAgrees
<1>1. ASSUME SaveStart(r)
      PROVE  session'.status = "SUBMITTED" => session'.submitted # None
  BY <1>1, SavedStartIs DEF SaveStart, TimerAgrees, Ack, Moves
<1>2. session'.status = "SUBMITTED" => session'.submitted # None
  BY <1>1, RowIs, SavedSubmitIs, NewSessionIs DEF NoSession, SessionTypeOK, RowsTypeOK
<1>3. session.id # 0 /\ session'.id = session.id /\ session.submitted # None
        => session'.submitted # None
  BY SavedStartIs, SavedSubmitIs, RowIs, NewSessionIs, SessionAssumption
     DEF NoSession, SessionTypeOK, RowsTypeOK, IdsAgree, Sessions
<1>4. ASSUME NEW x \in Requests, pc'[x] \in Grading, copy'[x].id = session'.id
      PROVE  session'.submitted # None
  <2>1. CASE SaveSubmit(r) /\ x = r
    <3>1. copy'[r].id = copy[r].id
      BY <2>1, SubmittedCopied
    <3>2. QED
      BY <1>4, <2>1, <3>1, SavedSubmitIs
  <2>2. CASE LoadForSubmit(r) /\ x = r
    BY <1>2, <1>4, <2>2
       DEF LoadForSubmit, Moves, Refuse, Grading, rowVars, SessionTypeOK, RequestsTypeOK
  <2>3. CASE pc[x] \in Grading /\ copy'[x].id = copy[x].id
    <3>1. copy[x].id \in 1..created
      BY <2>3 DEF IdsAgree, Grading, HoldsCopy
    <3>2. session'.id \in 1..created /\ created \in 0..MaxSessions /\ MaxSessions \in Nat
      BY <3>1, <1>4, <2>3, SessionAssumption DEF SessionTypeOK, RowsTypeOK
    <3>3. session'.id # 0 /\ session'.id # created + 1
      BY <3>2
    <3>4. session.id = session'.id /\ session.id # 0
      BY <3>2, <3>3, RowIs, SavedStartIs, SavedSubmitIs, NewSessionIs DEF NoSession
    <3>5. QED
      BY <1>3, <1>4, <2>3, <3>4
  <2>4. CASE x = r /\ (LookForResult(r) \/ ReadDrafts(r))
    BY <1>4, <2>3, <2>4 DEF LookForResult, ReadDrafts, Moves, Ack, Keeps, Grading, SessionTypeOK,
                            RequestsTypeOK
  <2>5. QED
    BY <1>4, <2>1, <2>2, <2>3, <2>4, OthersKeep, CameFrom DEF Grading
<1>5. ASSUME session'.id # 0, result'[session'.id] # NoResult
      PROVE  session'.submitted # None
  <2>1. session'.id \in Ids /\ session.id <= created
    BY <1>5, RowsTyped, ColumnsOf DEF IdsAgree, Ids, SessionTypeOK, RowsTypeOK, Next, Step
  <2>2. CASE CreateExamResult(r)
    <3>1. session' = session
      BY <2>2 DEF CreateExamResult
    <3>2. result[session.id] # NoResult \/ copy[r].id = session.id
      BY <1>5, <2>1, <2>2, <3>1 DEF CreateExamResult, SessionTypeOK, RowsTypeOK
    <3>3. QED
      BY <1>5, <2>2, <3>1, <3>2 DEF CreateExamResult, Ack, Moves, Grading, ResultMeansSubmitted,
                                    Exists
  <2>3. CASE result' = result
    <3>1. session'.id # created + 1
      BY <1>5, <2>1, <2>3 DEF IdsAgree, SessionTypeOK, RowsTypeOK
    <3>2. session'.id = session.id
      BY <1>5, <3>1, RowIs, SavedStartIs, SavedSubmitIs, NewSessionIs, SessionAssumption
         DEF NoSession, SessionTypeOK, RowsTypeOK
    <3>3. QED
      BY <1>3, <1>5, <2>3, <3>2 DEF ResultMeansSubmitted, Exists
  <2>4. QED
    BY <2>2, <2>3, AnswersKept
<1>6. QED
  BY <1>2, <1>4, <1>5 DEF ResultMeansSubmitted, Exists

(* What LoadForStart puts in the copy: the row's start time, or now.       *)
LEMMA StartCopied ==
  ASSUME SessionTypeOK, NEW r \in Requests, LoadForStart(r), pc'[r] = "starting"
  PROVE  /\ session.id # 0
         /\ copy'[r].id = session.id /\ copy'[r].status = "IN_PROGRESS"
         /\ \E now \in Times : /\ now <= clock
                               /\ copy'[r].started =
                                    IF session.started = None THEN now ELSE session.started
<1>1. PICK now \in at[r]..clock : Exists /\ copy' = [copy EXCEPT ![r] = StartedCopy(session, now)]
  BY DEF LoadForStart, Refuse, Moves, SessionTypeOK, RequestsTypeOK
<1>2. now \in Times /\ now <= clock
  BY NowIsTime DEF SessionTypeOK
<1>3. QED
  BY <1>1, <1>2, StartedCopyIs DEF Exists, SessionTypeOK, RowsTypeOK, RequestsTypeOK

(* The times compared are numbers.                                         *)
LEMMA TimesAreNumbers ==
  ASSUME SessionTypeOK
  PROVE  /\ clock \in Nat
         /\ session.started \in Nat \cup {None}
         /\ \A x \in Requests : copy[x].started \in Nat \cup {None}
         /\ \A i \in Ids : begun[i] \in Nat \cup {None}
BY SessionAssumption
   DEF SessionTypeOK, RowsTypeOK, RequestsTypeOK, HistoryTypeOK, Sessions, Times

(* When sessions were first started is settled once, by SaveStart.         *)
LEMMA BegunIs ==
  ASSUME SessionTypeOK, NEW r \in Requests, Step(r), NEW i \in Ids
  PROVE  begun'[i] = IF SaveStart(r) /\ copy[r].id = i /\ begun[i] = None THEN clock ELSE begun[i]
<1>1. CASE SaveStart(r)
  BY <1>1 DEF SaveStart, SessionTypeOK, HistoryTypeOK
<1>2. CASE ~SaveStart(r)
  BY <1>2, RowKept DEF SaveSubmit, DeleteExamSession, CreateExamSession, histVars
<1>3. QED
  BY <1>1, <1>2

(* A step keeps every start time about before the first start.             *)
LEMMA TimerInv ==
  ASSUME SessionTypeOK, SessionInv, NEW r \in Requests, Step(r)
  PROVE  TimerAgrees'
<1> USE DEF SessionInv, TimerAgrees
<1>1. clock' = clock /\ None \notin Nat
  BY AnswersKept, SessionAssumption
<1>2. ASSUME session'.id # 0
      PROVE  /\ session'.started = None <=> begun'[session'.id] = None
             /\ session'.started # None => session'.started <= begun'[session'.id]
  <2>1. session'.id \in Ids
    BY <1>2, RowsTyped, ColumnsOf DEF IdsAgree, Ids, SessionTypeOK, RowsTypeOK, Next, Step
  <2>2. CASE SaveStart(r)
    <3>1. /\ session.id = session'.id /\ copy[r].started # None
          /\ copy[r].started <= IF begun[copy[r].id] = None THEN clock ELSE begun[copy[r].id]
      BY <2>2, SavedStartIs DEF SaveStart, Ack, Moves
    <3>2. CASE copy[r].id = session.id
      BY <1>1, <2>1, <2>2, <3>1, <3>2, SavedStartIs, BegunIs, TimesAreNumbers
    <3>3. CASE copy[r].id # session.id
      BY <1>2, <2>1, <2>2, <3>1, <3>3, SavedStartIs, BegunIs DEF TimerNeverExtended, Exists
    <3>4. QED
      BY <3>2, <3>3
  <2>3. CASE SaveSubmit(r)
    <3>1. begun'[session'.id] = begun[session.id] /\ session.id = session'.id
      BY <2>1, <2>3, SavedSubmitIs DEF SaveSubmit, histVars
    <3>2. copy[r].started # None =>
            begun[copy[r].id] # None /\ copy[r].started <= begun[copy[r].id]
      BY <2>3 DEF SaveSubmit, Moves
    <3>3. QED
      BY <1>2, <2>3, <3>1, <3>2, SavedSubmitIs DEF TimerNeverExtended, Exists
  <2>4. CASE CreateExamSession(r)
    <3>1. CASE session' = session
      BY <1>2, <2>4, <3>1 DEF CreateExamSession, TimerNeverExtended, Exists
    <3>2. CASE session' = [NoSession EXCEPT !.id = created + 1] /\ created < MaxSessions
      <4>1. created + 1 \in 0..MaxSessions /\ created + 1 > created
        BY <3>2, SessionAssumption DEF SessionTypeOK, RowsTypeOK
      <4>2. session'.id = created + 1 /\ session'.started = None
        BY <3>2, <4>1, NewSessionIs
      <4>3. begun'[session'.id] = None
        BY <2>1, <2>4, <4>1, <4>2 DEF IdsAgree, CreateExamSession
      <4>4. QED
        BY <4>2, <4>3
    <3>3. QED
      BY <2>4, <3>1, <3>2 DEF CreateExamSession
  <2>5. CASE ~SaveStart(r) /\ ~SaveSubmit(r) /\ ~CreateExamSession(r)
    <3>1. session' = session
      BY <1>2, <2>5, RowIs DEF NoSession
    <3>2. QED
      BY <1>2, <2>1, <2>5, <3>1, BegunIs DEF TimerNeverExtended, Exists
  <2>6. QED
    BY <2>2, <2>3, <2>4, <2>5
<1>3. ASSUME NEW x \in Requests, pc'[x] = "starting"
      PROVE  /\ copy'[x].status = "IN_PROGRESS" /\ copy'[x].started # None
             /\ copy'[x].started <= IF begun'[copy'[x].id] = None THEN clock
                                    ELSE begun'[copy'[x].id]
  <2>1. CASE x = r
    <3>1. LoadForStart(r)
      BY <1>3, <2>1, CameFrom
    <3>2. PICK now \in Times : /\ now <= clock
                               /\ copy'[r].started =
                                    IF session.started = None THEN now ELSE session.started
      BY <1>3, <2>1, <3>1, StartCopied
    <3>3. session.id # 0 /\ copy'[r].id = session.id /\ copy'[r].status = "IN_PROGRESS"
      BY <1>3, <2>1, <3>1, StartCopied
    <3>4. begun' = begun /\ now # None
      BY <3>1, SessionAssumption DEF LoadForStart, Times
    <3>5. QED
      BY <2>1, <3>2, <3>3, <3>4 DEF TimerNeverExtended, Exists
  <2>2. CASE x # r
    <3>1. pc[x] = "starting" /\ copy'[x] = copy[x]
      BY <1>3, <2>2, OthersKeep
    <3>2. copy[x].id \in Ids
      BY <3>1, CopyIsOfARow DEF HoldsCopy
    <3>3. CASE SaveStart(r) /\ copy[r].id = copy[x].id /\ begun[copy[x].id] = None
      BY <1>1, <3>1, <3>2, <3>3, BegunIs, TimesAreNumbers
    <3>4. CASE ~(SaveStart(r) /\ copy[r].id = copy[x].id /\ begun[copy[x].id] = None)
      BY <3>1, <3>2, <3>4, BegunIs
    <3>5. QED
      BY <3>3, <3>4
  <2>3. QED
    BY <2>1, <2>2
<1>4. ASSUME NEW x \in Requests, pc'[x] = "submitting", copy'[x].started # None
      PROVE  begun'[copy'[x].id] # None /\ copy'[x].started <= begun'[copy'[x].id]
  <2>1. CASE x = r
    <3>1. LoadForSubmit(r)
      BY <1>4, <2>1, CameFrom
    <3>2. session.id # 0 /\ copy'[r] = session /\ begun' = begun
      BY <1>4, <2>1, <3>1
         DEF LoadForSubmit, Exists, Refuse, Moves, SessionTypeOK, RequestsTypeOK
    <3>3. QED
      BY <1>4, <2>1, <3>2 DEF TimerNeverExtended, Exists
  <2>2. CASE x # r
    <3>1. pc[x] = "submitting" /\ copy'[x] = copy[x]
      BY <1>4, <2>2, OthersKeep
    <3>2. copy[x].id \in Ids
      BY <3>1, CopyIsOfARow DEF HoldsCopy
    <3>3. QED
      BY <1>4, <3>1, <3>2, BegunIs
  <2>3. QED
    BY <2>1, <2>2
<1>5. QED
  BY <1>1, <1>2, <1>3, <1>4 DEF TimerNeverExtended, Exists

(* Answers are numbers, before a step and after.                           *)
LEMMA StampsAreNumbers ==
  ASSUME SessionTypeOK, NEW q \in Questions
  PROVE  /\ stamp \in Nat
         /\ \A i \in Ids : drafts[i][q] \in Nat /\ promised[i][q] \in Nat
         /\ \A x \in Requests : own[x][q] \in Nat /\ read[x][q] \in Nat
BY DEF SessionTypeOK, RowsTypeOK, RequestsTypeOK, HistoryTypeOK, Answers

(* A draft is replaced by the newest answer or left alone.                 *)
LEMMA DraftIs ==
  ASSUME SessionTypeOK, IdsAgree, NEW r \in Requests, Step(r),
         NEW i \in Ids, NEW q \in Questions
  PROVE  /\ stamp \in Nat /\ stamp' \in Nat /\ stamp' >= stamp /\ drafts[i][q] \in Nat
         /\ \/ drafts'[i][q] = drafts[i][q]
            \/ /\ drafts'[i][q] = stamp + 1 /\ stamp' = stamp + 1
               /\ SaveAnswerDraft(r, q) /\ copy[r].id = i
<1>1. stamp \in Nat /\ drafts[i][q] \in Nat
  BY StampsAreNumbers
<1>2. ASSUME NEW p \in Questions, SaveAnswerDraft(r, p)
      PROVE  /\ stamp' = stamp + 1
             /\ drafts'[i][q] = IF copy[r].id = i /\ p = q THEN stamp + 1 ELSE drafts[i][q]
  BY <1>2 DEF SaveAnswerDraft, StoredDraft, SessionTypeOK, RowsTypeOK, Answers
<1>3. QED
  BY <1>1, <1>2, AnswersKept

(* Answers a request has stored are cleared once it leaves SaveAnswers.    *)
LEMMA OwnIs ==
  ASSUME SessionTypeOK, NEW r \in Requests, Step(r), NEW q \in Questions
  PROVE  /\ SaveAnswerDraft(r, q) => own'[r][q] = stamp + 1
         /\ ~SaveAnswerDraft(r, q) => own'[r][q] = own[r][q] \/ own'[r][q] = 0
         /\ pc[r] = "saving" /\ pc'[r] # "saving" => own'[r][q] = 0
<1> USE DEF SessionTypeOK, RequestsTypeOK, HistoryTypeOK, Answers, Moves, Forgets, Ack, Refuse,
            Keeps, NoAnswers
<1>1. CASE \E p \in Questions : SaveAnswerDraft(r, p)
  <2>1. ASSUME NEW p \in Questions, SaveAnswerDraft(r, p)
        PROVE  pc' = pc /\ own'[r][q] = IF p = q THEN stamp + 1 ELSE own[r][q]
    BY <2>1 DEF SaveAnswerDraft
  <2>2. QED
    BY <1>1, <2>1
<1>2. CASE CandidateStep(r) /\ ~\E p \in Questions : SaveAnswerDraft(r, p)
  BY <1>2 DEF CandidateStep, ArriveCandidate, LoadForStart, SaveStart, LoadForSubmit, SaveSubmit,
              LookForResult, ReadDrafts, CreateExamResult, LoadForSave, CheckDeadline, AckSave,
              histVars
<1>3. CASE (AdminStep(r) \/ Abort(r)) /\ ~\E p \in Questions : SaveAnswerDraft(r, p)
  BY <1>3 DEF AdminStep, ArriveAdmin, LoadForRemove, DeleteExamSession, LoadForAssign,
              CreateExamSession, LoadForClose, SaveClosed, UpdateExam, Abort
<1>4. QED
  BY <1>1, <1>2, <1>3 DEF Step

(* A step keeps the answers stored behind the drafts.                      *)
LEMMA StampsInv ==
  ASSUME SessionTypeOK, SessionInv, NEW r \in Requests, Step(r)
  PROVE  StampsAgree'
<1> USE DEF SessionInv, StampsAgree
<1>1. ASSUME NEW i \in Ids, NEW q \in Questions
      PROVE  drafts'[i][q] <= stamp'
  BY <1>1, DraftIs
<1>2. ASSUME NEW x \in Requests, NEW q \in Questions, pc'[x] = "saving"
      PROVE  own'[x][q] <= drafts'[copy'[x].id][q]
  <2>1. CASE x = r
    <3>1. CASE CheckDeadline(r)
      <4>1. own'[r][q] = 0 /\ copy' = copy /\ drafts' = drafts /\ pc[r] = "checking"
        BY <1>2, <2>1, <3>1
           DEF CheckDeadline, Moves, Refuse, rowVars, SessionTypeOK, RequestsTypeOK
      <4>2. drafts[copy[r].id] \in Answers
        BY <4>1, CopyIsOfARow DEF HoldsCopy
      <4>3. QED
        BY <2>1, <4>1, <4>2 DEF Answers
    <3>2. ASSUME NEW p \in Questions, SaveAnswerDraft(r, p)
          PROVE  own'[r][q] <= drafts'[copy'[r].id][q]
      <4>1. copy[r].id \in Ids /\ copy' = copy /\ pc[r] = "saving"
        BY <3>2, CopyIsOfARow DEF SaveAnswerDraft, HoldsCopy
      <4>2. own[r][q] <= drafts[copy[r].id][q]
        BY <4>1
      <4>3. CASE p = q
        BY <3>2, <4>1, <4>3, StampsAreNumbers
           DEF SaveAnswerDraft, StoredDraft, SessionTypeOK, RowsTypeOK, HistoryTypeOK, Answers
      <4>4. CASE p # q
        BY <3>2, <4>1, <4>2, <4>4
           DEF SaveAnswerDraft, StoredDraft, SessionTypeOK, RowsTypeOK, HistoryTypeOK, Answers
      <4>5. QED
        BY <4>3, <4>4
    <3>3. QED
      BY <1>2, <2>1, <3>1, <3>2, CameFrom
  <2>2. CASE x # r
    <3>1. /\ pc[x] = "saving" /\ copy'[x] = copy[x] /\ own'[x] = own[x]
          /\ own[x][q] \in Nat
      BY <1>2, <2>2, OthersKeep, StampsAreNumbers
    <3>2. copy[x].id \in Ids
      BY <3>1, CopyIsOfARow DEF HoldsCopy
    <3>3. own[x][q] <= drafts[copy[x].id][q] /\ drafts[copy[x].id][q] <= stamp
      BY <3>1, <3>2
    <3>4. QED
      BY <3>1, <3>2, <3>3, DraftIs
  <2>3. QED
    BY <2>1, <2>2
<1>3. ASSUME NEW x \in Requests, NEW q \in Questions, pc'[x] # "saving"
      PROVE  own'[x][q] = 0
  <2>1. CASE x # r
    BY <1>3, <2>1, OthersKeep
  <2>2. CASE x = r /\ pc[r] = "saving"
    BY <1>3, <2>2, OwnIs
  <2>3. CASE x = r /\ pc[r] # "saving"
    BY <1>3, <2>3, OwnIs DEF SaveAnswerDraft
  <2>4. QED
    BY <2>1, <2>2, <2>3
<1>4. QED
  BY <1>1, <1>2, <1>3

(* What AckSave promises.                                                  *)
LEMMA PromiseIs ==
  ASSUME SessionTypeOK, IdsAgree, NEW r \in Requests, Step(r),
         NEW i \in Ids, NEW q \in Questions
  PROVE  \/ promised'[i][q] = promised[i][q]
         \/ /\ promised'[i][q] = own[r][q] /\ ~SubmitArrived
            /\ pc[r] = "saving" /\ copy[r].id = i
<1>1. CASE AckSave(r)
  BY <1>1, CopyIsOfARow
     DEF AckSave, Ack, Moves, HoldsCopy, SessionTypeOK, HistoryTypeOK, Answers
<1>2. QED
  BY <1>1, AnswersKept

(* A step keeps promises behind drafts, drafts read and results.           *)
LEMMA PromisesInv ==
  ASSUME SessionTypeOK, SessionInv, NEW r \in Requests, Step(r)
  PROVE  PromisesAgree'
<1> USE DEF SessionInv, PromisesAgree
<1>1. ASSUME NEW i \in Ids, NEW q \in Questions
      PROVE  promised'[i][q] <= drafts'[i][q]
  <2>1. /\ promised[i][q] \in Nat /\ own[r][q] \in Nat
        /\ promised[i][q] <= drafts[i][q] /\ drafts[i][q] <= stamp
    BY StampsAreNumbers DEF StampsAgree
  <2>2. pc[r] = "saving" /\ copy[r].id = i => own[r][q] <= drafts[i][q]
    BY DEF StampsAgree
  <2>3. QED
    BY <2>1, <2>2, DraftIs, PromiseIs
<1>2. ASSUME NEW x \in Requests, NEW q \in Questions, pc'[x] = "creating"
      PROVE  promised'[copy'[x].id][q] <= read'[x][q]
  <2>1. CASE x = r
    <3>1. /\ ReadDrafts(r) /\ copy' = copy /\ promised' = promised /\ pc[r] = "reading"
          /\ read'[r] = drafts[copy[r].id]
      BY <1>2, <2>1, CameFrom
         DEF ReadDrafts, Moves, histVars, SessionTypeOK, RequestsTypeOK
    <3>2. copy[r].id \in Ids
      BY <3>1, CopyIsOfARow DEF HoldsCopy
    <3>3. QED
      BY <2>1, <3>1, <3>2
  <2>2. CASE x # r
    <3>1. pc[x] = "creating" /\ copy'[x] = copy[x] /\ read'[x] = read[x]
      BY <1>2, <2>2, OthersKeep
    <3>2. copy[x].id \in Ids
      BY <3>1, CopyIsOfARow DEF HoldsCopy
    <3>3. SubmitArrived
      BY <3>1 DEF SubmitsAgree, SubmitArrived, Grading
    <3>4. QED
      BY <3>1, <3>2, <3>3, PromiseIs
  <2>3. QED
    BY <2>1, <2>2
<1>3. ASSUME NEW i \in Ids, result'[i] # NoResult, NEW q \in Questions
      PROVE  result'[i][q] >= promised'[i][q]
  <2>1. CASE result'[i] = result[i]
    <3>1. SubmitArrived
      BY <1>3, <2>1 DEF SubmitsAgree
    <3>2. QED
      BY <1>3, <2>1, <3>1, PromiseIs DEF AckedAnswersAreGraded
  <2>2. CASE /\ CreateExamResult(r) /\ copy[r].id = i /\ result'[i] = read[r]
    <3>1. pc[r] = "creating" /\ promised' = promised
      BY <2>2 DEF CreateExamResult, Ack, Moves
    <3>2. promised[i][q] <= read[r][q]
      BY <2>2, <3>1
    <3>3. QED
      BY <2>2, <3>1, <3>2, StampsAreNumbers
  <2>3. CASE CreateExamResult(r)
    BY <2>1, <2>2, <2>3 DEF CreateExamResult, SessionTypeOK, RowsTypeOK
  <2>4. QED
    BY <2>1, <2>3, AnswersKept
<1>4. QED
  BY <1>1, <1>2, <1>3 DEF AckedAnswersAreGraded

(* The clock's ticking only makes the start times about older.             *)
LEMMA TickInv ==
  ASSUME SessionTypeOK, SessionInv, Tick
  PROVE  SessionInv'
<1>1. clock \in Nat /\ clock' = clock + 1
  BY TimesAreNumbers DEF Tick
<1>2. UNCHANGED <<rowVars, reqVars, histVars>>
  BY DEF Tick
<1>3. IdsAgree' /\ SubmissionAgrees' /\ SubmitsAgree' /\ StampsAgree' /\ PromisesAgree'
  BY <1>2 DEF SessionInv, IdsAgree, SubmissionAgrees, ResultMeansSubmitted, Exists, SubmitsAgree,
              SubmitArrived, StampsAgree, PromisesAgree, AckedAnswersAreGraded, rowVars, reqVars,
              histVars
<1>4. TimerAgrees'
  BY <1>1, <1>2, TimesAreNumbers DEF SessionInv, TimerAgrees, TimerNeverExtended, Exists, rowVars,
              reqVars, histVars
<1>5. QED
  BY <1>3, <1>4 DEF SessionInv

(* SessionInv is inductive.                                                *)
LEMMA SessionInvStep ==
  ASSUME SessionTypeOK, SessionInv, [Next]_vars
  PROVE  SessionInv'
<1>1. CASE UNCHANGED vars
  BY <1>1 DEF SessionInv, IdsAgree, SubmissionAgrees, ResultMeansSubmitted, Exists, SubmitsAgree,
              SubmitArrived, StampsAgree, PromisesAgree, AckedAnswersAreGraded, TimerAgrees,
              TimerNeverExtended, vars, rowVars, reqVars, histVars
<1>2. CASE Tick
  BY <1>2, TickInv
<1>3. ASSUME NEW r \in Requests, Step(r)
      PROVE  SessionInv'
  BY <1>3, IdsInv, SubmissionInv, TimerInv, SubmitsInv, StampsInv, PromisesInv DEF SessionInv
<1>4. QED
  BY <1>1, <1>2, <1>3 DEF Next, Step

(* The three initial states have in common what the invariant needs.       *)
LEMMA InitFrom ==
  ASSUME Init, session \in Sessions, session.id \in 0..1, session.status # "SUBMITTED",
         \A j \in Ids : begun[j] = IF j = session.id THEN session.started ELSE None,
         session.started # None => session.started <= session.started
  PROVE  SessionTypeOK /\ SessionInv
<1>1. NoSession \in Sessions /\ NoAnswers \in Answers /\ 0 \in Times /\ clock \in Times
  BY Blank, SessionAssumption DEF Init, Times
<1>2. RowsTypeOK
  BY <1>1, SessionAssumption DEF Init, RowsTypeOK, ExamStatuses
<1>3. RequestsTypeOK
  BY <1>1 DEF Init, RequestsTypeOK
<1>4. HistoryTypeOK
  BY <1>1 DEF Init, HistoryTypeOK, Sessions
<1>5. IdsAgree
  BY SessionAssumption DEF Init, IdsAgree, HoldsCopy, Ids
<1>6. SubmissionAgrees
  BY SessionAssumption DEF Init, SubmissionAgrees, ResultMeansSubmitted, Exists, Grading, Ids
<1>7. TimerAgrees
  BY SessionAssumption DEF Init, TimerAgrees, TimerNeverExtended, Exists, Ids
<1>8. SubmitsAgree
  BY DEF Init, SubmitsAgree, Grading
<1>9. StampsAgree
  BY DEF Init, StampsAgree, NoAnswers
<1>10. PromisesAgree
  BY DEF Init, PromisesAgree, AckedAnswersAreGraded, NoAnswers
<1>11. QED
  BY <1>2, <1>3, <1>4, <1>5, <1>6, <1>7, <1>8, <1>9, <1>10 DEF SessionTypeOK, SessionInv

(* SessionInv holds at first.                                              *)
LEMMA SessionInit ==
  ASSUME Init
  PROVE  SessionTypeOK /\ SessionInv
<1>1. NoSession \in Sessions /\ NoAnswers \in Answers /\ 0 \in Times /\ clock \in Times
  BY Blank, SessionAssumption DEF Init, Times
<1>2. CASE session = NoSession \/ session = [NoSession EXCEPT !.id = 1]
  <2>1. /\ session \in Sessions /\ session.id \in 0..1 /\ session.status = "NOT_STARTED"
        /\ session.started = None /\ session.submitted = None
    BY <1>2, Blank, NewSessionIs, SessionAssumption DEF NoSession
  <2>2. \A j \in Ids : begun[j] = None
    BY <2>1 DEF Init
  <2>3. QED
    BY <1>1, <2>1, <2>2, InitFrom
<1>3. CASE /\ clock = StartTime
           /\ session = [id |-> 1, status |-> "IN_PROGRESS", started |-> StartTime,
                         submitted |-> None]
  <2>1. /\ session \in Sessions /\ session.id = 1 /\ session.status = "IN_PROGRESS"
        /\ session.started = StartTime /\ StartTime \in Times
    BY <1>3, SessionAssumption DEF Sessions, Statuses, Times
  <2>2. \A j \in Ids : begun[j] = IF j = 1 THEN StartTime ELSE None
    BY <2>1 DEF Init
  <2>3. StartTime <= StartTime /\ StartTime # None
    BY SessionAssumption
  <2>4. QED
    BY <1>1, <2>1, <2>2, <2>3, InitFrom
<1>4. QED
  BY <1>2, <1>3 DEF Init

-----------------------------------------------------------------------------
(* What holds of every sitting, whatever the requests, questions, times    *)
(* and reassignments.                                                      *)

(* Typing and the inductive invariant, which carry each other: a copy's id *)
(* indexes the drafts only because ids agree.                              *)
THEOREM SessionInvariant == Spec => [](SessionTypeOK /\ SessionInv)
<1>1. (SessionTypeOK /\ SessionInv) /\ [Next]_vars => (SessionTypeOK /\ SessionInv)'
  BY SessionTypeInv, SessionInvStep DEF SessionInv
<1>2. QED
  BY SessionInit, <1>1, PTL DEF Spec

(* Rows, copies in flight and histories keep the columns' types however    *)
(* the handlers' store calls interleave.                                   *)
THEOREM SessionTyping == Spec => []SessionTypeOK
BY SessionInvariant, PTL

(* SubmitExam creates results of submitted sessions only, and no stale     *)
(* write of StartExamSession or SubmitExam takes the submission time away. *)
THEOREM ResultsHaveSubmission == Spec => []ResultMeansSubmitted
<1>1. SessionInv => ResultMeansSubmitted
  BY DEF SessionInv, SubmissionAgrees
<1>2. QED
  BY SessionInvariant, <1>1, PTL

(* No answer acknowledged by SaveAnswers before the first submit is lost   *)
(* to a grading that read an older draft.                                  *)
THEOREM AnswersReachGrading == Spec => []AckedAnswersAreGraded
<1>1. SessionInv => AckedAnswersAreGraded
  BY DEF SessionInv, PromisesAgree
<1>2. QED
  BY SessionInvariant, <1>1, PTL

(* Racing or repeated calls of StartExamSession never move started_at past *)
(* the moment the session was first started.                               *)
THEOREM TimerIsNotExtended == Spec => []TimerNeverExtended
<1>1. SessionInv => TimerNeverExtended
  BY DEF SessionInv, TimerAgrees
<1>2. QED
  BY SessionInvariant, <1>1, PTL

(* UpdateExamSession with a stale copy never makes a begun session one     *)
(* that has not started, nor clears a time.                                *)
THEOREM ProgressKept == Spec => ProgressIsKept
<1> DEFINE Kept == /\ session.status # "NOT_STARTED" => session'.status # "NOT_STARTED"
                   /\ session.started # None => session'.started # None
                   /\ session.submitted # None => session'.submitted # None
<1>1. ASSUME SessionTypeOK, SessionInv, [Next]_vars
      PROVE  [SameRow => Kept]_vars
  <2>1. ASSUME NEW r \in Requests, Step(r), SameRow
        PROVE  Kept
    <3>1. session.id \in 0..created /\ created \in Nat /\ MaxSessions \in Nat
      BY <1>1, ColumnsOf, SessionAssumption
         DEF SessionInv, IdsAgree, SessionTypeOK, RowsTypeOK
    <3>2. CASE SaveStart(r)
      BY <1>1, <3>2, SavedStartIs DEF SaveStart, Ack, Moves, SessionInv, TimerAgrees
    <3>3. CASE SaveSubmit(r)
      BY <1>1, <3>3, SavedSubmitIs
    <3>4. CASE created < MaxSessions /\ session' = [NoSession EXCEPT !.id = created + 1]
      <4>1. session'.id = created + 1
        BY <3>1, <3>4, NewSessionIs
      <4>2. QED
        BY <2>1, <3>1, <4>1 DEF SameRow
    <3>5. QED
      BY <1>1, <2>1, <3>2, <3>3, <3>4, RowIs DEF SameRow, NoSession
  <2>2. CASE Tick \/ UNCHANGED vars
    BY <2>2 DEF Tick, vars, rowVars
  <2>3. QED
    BY <1>1, <2>1, <2>2 DEF Next, Step
<1>2. QED
  BY SessionInvariant, <1>1, PTL DEF Spec, ProgressIsKept

(* The unique index on exam_session_id makes the first result the last,    *)
(* whichever submits race.                                                 *)
THEOREM ResultsAreFinal == Spec => ResultIsFinal
<1> DEFINE Final == \A i \in Ids : result[i] # NoResult => result'[i] = result[i]
<1>1. ASSUME SessionTypeOK, [Next]_vars
      PROVE  [Final]_vars
  <2>1. ASSUME NEW r \in Requests, Step(r)
        PROVE  Final
    <3>1. CASE CreateExamResult(r)
      BY <1>1, <3>1 DEF CreateExamResult, SessionTypeOK, RowsTypeOK
    <3>2. QED
      BY <2>1, <3>1, AnswersKept
  <2>2. CASE Tick \/ UNCHANGED vars
    BY <2>2 DEF Tick, vars, rowVars
  <2>3. QED
    BY <1>1, <2>1, <2>2 DEF Next, Step
<1>2. QED
  BY SessionTyping, <1>1, PTL DEF Spec, ResultIsFinal
=============================================================================
