# Examora in TLA+

Specifications of the core of Examora, an online examination system: a Go
backend (`internal/`) behind an HTTP API, an asynchronous judge fed through
Redis, an administrator's web application and a candidate's desktop client.
Everything here is translated from the code; documents are quoted only where
what they say differs from what the code does ("Disagreements" below).

Check a module with `tlc -config <run>.cfg <MC module>` and the proofs with
`tlapm M.tla`, where `M` is one of the eight modules whose names end in `Proofs`.
`PROJECT.json` lists the runs, the mutants that
show each property can fail, the source lines of every definition, the hazards
of the code and the theorems.

## 1. Inventory

The backend keeps all its state in PostgreSQL, through GORM, and a work queue in
Redis, through asynq. Four facts shape everything below:

- every API request is a goroutine of its own, and a service function is a
  sequence of store calls that are each their own transaction. Nothing locks a
  row; the one explicit transaction of the exam flow is the one that publishes;
- rows are read into a struct, changed and written back later. An update names
  the row by its id and has no condition on the status it was read with. What
  protects the data is the unique indexes (one snapshot per exam, one session
  per snapshot and user, one result per session, one question result per result
  and question, one draft per session and question);
- a page of the administration works on copies it fetched, gives its requests no
  order, and never learns of a change it did not ask for; what it offers is
  decided on its copy, what is done on a row the server reads again;
- the worker process runs up to four handlers at once, and Redis is deployed
  without persistence (`deploy/docker-compose.yml:19`).

### Components

| Component | State | Operations | Talks to |
|---|---|---|---|
| Judge task (`judge/task.go`, `judge/store`) | `judge_tasks` row: status, verdict | NewTask, MarkQueued, MarkRunning, Complete, Delete | dispatcher, worker |
| Judge dispatch, queue, workers (`judge/service.go`, `judge/queue`, `judge/worker`, `server/worker.go`) | asynq message per task, its retry count | CreateAndEnqueue, ProcessTask, redelivery, archive | grading (caller), task store, sandbox, UpdateJudgeResult |
| Grading and results (`exam/grading.go`, `exam/submission.go`, `exam/store/judge.go`) | `exam_results`, `question_results`, `submissions` | gradeSubmittedSession, CreateSubmission, UpdateJudgeResult, refreshExamResultSummary | session (caller), judge dispatch, workers |
| Exam session (`exam/snapshot_service.go`, `exam/store/session.go`, `draft.go`) | `exam_sessions` (status, start, submission), `answer_drafts` | StartExamSession, SaveAnswers, SubmitExam, GetCurrentSession, GetCandidatePaper | exam row, grading |
| Publishing (`exam/snapshot_service.go`) | `exam_snapshots`, section and question snapshots | PublishExamWithSnapshot | library, exam row |
| Exam administration (`exam/exam.go`, `batch.go`, `client_event.go`) | `exams` row: status, window, paper | CreateExam, UpdateExam, CloseExam, BatchCloseExams, RemoveCandidate, RecordClientEvent | sessions |
| Assignments (`exam/user_group.go`) | `exam_assignments` | AssignExamTargets, RemoveExamAssignment | sessions, groups |
| User groups (`exam/user_group.go`, `exam/store/user_group.go`) | tree of `user_groups`, members | create, update (reparent), delete, add and remove members, descendants | assignments |
| Question library (`library/question.go`) | questions with status, test cases | create, update, change status, delete, add test case | papers, publishing |
| Papers (`library/paper.go`) | papers, sections, paper questions | create, update, delete, add, remove, save outline | questions, publishing |
| Sandbox (`judge/sandbox`, `cmd/sandbox`) | none | run code against test cases | worker |
| Authentication (`auth/`) | users, token blacklist, casbin policies | Login, Logout, Authenticate, LoginWithLogto, user administration | API |
| HTTP API (`api/`, `server/`) | none | routing, binding, mapping | all services |
| Infrastructure (`infra/`) | connections, schema | start-up | all stores |
| Desktop client (`apps/desktop`) | answers on screen, timers | start, autosave, submit | API |
| Admin: question page (`pages/Content/Library/Questions/Detail.tsx`) | copy of a question, form, options and their timers, requests under way | load, edit, save, delete, cancel | library |
| Admin: paper page (`pages/Content/Papers/Detail`) | copy of a paper, sections, picker, the chain of a save | load, edit, pick, save, cancel | library |
| Admin: lists of questions and papers | rows, selection, report of a batch | status, deletion, batches, reload | library |
| Admin: exams (`pages/Examination`) | copy of an exam and its sessions, dialogs | create, edit, publish, close, assign, remove | exam administration, publishing, assignments |
| Admin: accounts and groups (`pages/System/Settings`) | drawer, dialogs, selection | create, edit, delete, join, leave, drop | authentication, groups |
| Admin: results, events, judge tasks | list, chosen exam, drawer | fetch, choose, open | grading, events, judge |
| Admin: signing in (`app.tsx`, `auth`, `Login`, `RightContent`) | token in localStorage, a copy in each tab, the user shown | login, first loading, requests, logout | authentication |
| Admin: other pages (welcome, account settings, theme, texts) | none on the server | | |
| `packages/*`, `cmd/dev-seed`, `website/` | none that matters here | | |

### What is hard, and what makes each component correct

- *Judge.* A message can be delivered before its row says QUEUED, more than once,
  or never; the caller and the worker write the same row; any statement can fail
  between two writes. Correct means: code is run at most once, a dispatch that
  failed is never judged, a message is dropped only when its verdict is stored,
  the row goes along its lifecycle, and a queued job is eventually judged.
- *Grading.* The grader inserts and summarises rows while workers update the same
  rows and summaries; submits race and are retried; grading can stop anywhere.
  Correct means: one grading per session, verdicts that are those of the tasks,
  question results that do not change once settled, a total that never counts
  what is not there and, eventually, one that counts all that is.
- *Session.* Start, save, submit, removal, assignment and closing act on copies.
  Correct means: progress is never lost, the timer never extended, what was
  acknowledged before the submit is what is graded, the graded answers are final.
- *Publishing.* Reads the library outside its transaction. Correct means: a
  snapshot is a state the library was in, there is one per exam, it never changes.
- *Administration.* Whole rows are written back, UpdateExam takes any status.
  Correct means: a closed exam stays closed, concurrent edits are not lost.
- *Assignments, groups.* Check-then-delete over many sessions, memberships that
  move, reparentings that are valid one by one. Correct means: a session exists
  exactly for who is assigned or has begun; the groups stay a forest.
- *Library.* Validation on stale copies, reference counts before deletes. Correct
  means: what is published is valid and complete, what is referenced exists.
- *Desktop client.* Autosaves overlap with submit and with resuming. Correct
  means: what the candidate saw saved is what is submitted.
- *Pages of the administration.* Answers come late, out of order or not at all,
  to a page that has gone on; a save is a chain of requests that can stop in the
  middle; an answer to a question names options by letters that move. Correct
  means: nothing typed is lost silently, a page at rest shows what is stored or
  what was chosen, marks stay with what was marked, nothing unready is published
  by the page's own requests, every page comes to rest.
- *Accounts and signing in.* A row and its roles change in separate statements,
  whose errors are discarded; a token lives in storage and in a copy per tab.
  Correct means: whatever was left half-done, saving an account again gives it the
  one role of the form, and a page asks for data as the user it shows.

`PROJECT.json` lists these hazards one by one with the line where they bite and
the properties that cover them; those without a property name the planned module.

## 2. The modules

| Module | Models | Uses |
|---|---|---|
| `TaskLifecycle` | abstract: what a task row promises its readers | |
| `JudgePipeline` | dispatchers, queue and workers, in full | `Row == INSTANCE TaskLifecycle` |
| `JudgePipelineProofs` | the theorems about it | `JudgePipeline`, TLAPS |
| `GradingPipeline` | grading, direct submissions and result write-back, with the judge | extends `JudgePipeline` |
| `GradingPipelineProofs` | the theorems about it | `GradingPipeline`, `JudgePipelineProofs` |
| `ExamSession` | one candidate's session under concurrent requests | |
| `ExamSessionProofs` | the theorems about it | `ExamSession`, TLAPS |
| `OptionsEditor` | the options of a choice question under their timers | |
| `OptionsEditorProofs` | the theorems about it, and lemmas on the sequence operators of the pages | `OptionsEditor`, TLAPS |
| `QuestionEditor` | the question page and its requests | |
| `PaperBuilder` | the paper page and the chain of its saves | |
| `ContentLists` | the lists of questions and papers, the library's handlers, at several desks | |
| `ContentListsProofs` | the theorems about it | `ContentLists`, TLAPS |
| `ExamConsole` | one exam in several tabs: save, publish, close, assign, remove | |
| `ExamConsoleProofs` | the theorems about it | `ExamConsole`, TLAPS |
| `AccountAdmin` | accounts, roles, groups and the pages that edit them | |
| `AdminAuth` | signing in and out in several tabs | |
| `ResultsDesk` | results, events and judge tasks | |
| `MCJudgePipeline`, `MCGradingPipeline`, `MCExamSession` | instances for TLC | |
| `MCAdminPages` | instance: the pages of one administrator, one mounted at a time | `QuestionEditor`, `PaperBuilder`, `ResultsDesk`, `AdminAuth` |
| `MCAdminRows` | instance: several administrators on the same rows, one subject at a time | `OptionsEditor`, `ContentLists`, `ExamConsole`, `AccountAdmin` |
| `PagesProofs` | the theorems about `AdminAuth`, `QuestionEditor`, `ResultsDesk`, `PaperBuilder` and their composition | `MCAdminPages`, `OptionsEditorProofs` |
| `RowsProofs` | the theorems about `AccountAdmin` and the composition of the subjects | `MCAdminRows`, the proofs about the other three |

### JudgePipeline

A *job* is a submission with code and a language. `dispatch[j]` is where its
`CreateAndEnqueue` stands (a row is created, enqueued, marked QUEUED, or deleted
after a failed enqueue), `task[j]` the status of its row, `msg[j]` and
`retried[j]` its asynq message, `wpc[w]`, `wjob[w]` and `verdict[w]` where worker
`w`'s `ProcessTask` stands. Each store call is one action: `CreateTask`,
`EnqueueTask`, `MarkTaskQueued`, `DeleteTask`; `TakeMessage`, `LoadTask` or
`RejectTask`, `SaveRunning`, `RunSandbox`, `SaveVerdict`, `ReportResult`. Reads
that decide nothing (submission, test cases) are part of `RunSandbox`. The
`...Fails` actions are the error paths, `DispatcherCrash` and `AbortDelivery`
the death of a process or a failing statement at any point, `QueueLoss` a Redis
restart. `executions` is a history variable.

`Update` saves the caller's whole copy of the row. That a late save never
overwrites what the other side wrote is not built in: it is `RowLifecycle`, the
refinement of `TaskLifecycle`, checked by TLC and proved.

### GradingPipeline

One submitted session: `Objective` questions get their outcome at once, `Essays`
need a person, `Coded` ones are the jobs of the judge; the remaining jobs are
free runs through `CreateSubmission`, which have no question result. `gpc[g]` is
where a `SubmitExam` call stands in `gradeSubmittedSession`, `qstatus` and
`rstatus` are the rows, and a score is the *set* of questions counted in it
(`counted`), so that any weights are covered at once. A question without an
answer scores nothing wherever it is counted and is not told apart from one
answered wrongly. The worker's side is
`ReportSubmission`, `ReportQuestion` (or `ReportUnplaced` when there is no row),
`ReportRead` and `ReportWrite`, one per statement of `UpdateJudgeResult`.
`JudgePipeline`'s actions are used as they are, conjoined with what they mean for
the rows here; `Dispatch` runs `CreateAndEnqueue` inside a call that waits for it.

### ExamSession

`Requests` are calls received about one candidate and exam; each becomes a start,
a save, a submit, or an administrator's removal, assignment, closing or update.
`copy[r]` is the session row a handler read, written back later through
`UpdateExamSession`, which writes the columns of the copy that are not NULL.
Times are read from a clock that ticks between any two steps; a handler that
takes the time between two store calls takes one between the clocks of the two.
Answers carry stamps that grow, so that "older" and "newer" can be stated.
`SubmitExam` ends here with `CreateExamResult`; what follows is GradingPipeline's.
`Abort` is a failing store call or the death of the process anywhere.
The branch of StartExamSession that creates a session (`snapshot_service.go`
366-387) cannot be reached, because the store never returns neither a row nor an
error, and is not modelled.

### The administration

The pages are modelled as React runs them: the state of a page is that of its
hooks, a handler up to its `await` is one action and what follows the `await`
another, and whatever the page still offers in between may be done in between. A
request on its way is a record with a phase; the server's side is an action of its
own, two where the handler checks other rows before it writes, and one for each
statement where statements can fail by themselves. A request may be refused or
lost, before or after it took effect.

- `OptionsEditor`: an option has an identity, a letter (its key) and a text or
  none; the answer is a set of letters. Dragging and removing change the list and
  leave a timer with positions (`timers`, at most `MaxPending`); `Timeout` writes
  letters and answer. `ShownIndexes` is what the page shows as marked, every option
  of a letter; `SelectedIndexes` what an edit takes for it, the first of each.
  `SavedAnswer` is what a save makes of them.
- `QuestionEditor`: `row` is the stored question, `question` the copy, `form` the
  fields. Rules of validation count per type; texts are numbered versions, so
  that what was typed last can be told. Others change, cite or delete the row.
- `PaperBuilder`: `step` is the request on its way, `job` what the save in progress
  set out to store (its closure), `sections` and `original` the page's copies.
  A save goes `paper`, `outline`, `publish`. Publishing and saving an outline read
  the questions (`ServerChecks`) and write afterwards (`ServerWrites`), and so does
  the withdrawal of a question by others (`WithdrawChecks`, `WithdrawWrites`), whose
  write may also never come. `crossed` holds the questions for which two of these
  checks were both passed and unwritten at one time.
- `ContentLists`: `desk[d]` is a page with its copies, its selection and the
  request it waits for, of whose ids `left` are still to do and one, `item`, is
  between the checks and the write. A request for one row is a batch of one.
  A write that fails leaves the rows as they were, except that `DeletePaper`, three
  statements without a transaction, may have taken the questions from a paper that
  stays.
- `ExamConsole`: `tab[t]` has its copy of exam and sessions and the row the server
  read for it. `UpdateExam` reads nothing; publishing inserts the snapshot, unique
  per exam, and writes the status in one transaction; closing writes back its row.
- `AccountAdmin`: `account` is the row, `roles` what casbin holds. Each statement of
  a handler is an action: the row (`SaveRow`, `CreateRow`, `DeleteRow`), reading the
  roles, taking them away one by one (`DropRole`), adding the new one (`GiveRole`). Those
  on roles may fail, which the handler passes over; the server may stop between any
  two. A page waits for up to as many requests as there are `Slots`, because drawer
  and dialogs can be closed while they save.
- `AdminAuth`: a token is the number of its login; `stored` is localStorage,
  `visit[t].token` the copy of a tab, `spent` what is revoked or expired.
- `ResultsDesk`: `listing` and `reading` are the requests under way in the order
  they were sent; any of them may be answered next.

`muddled`, `overlap`, `torn`, `hasty`, `calm`, `relettered`, `crossed`, `crowded`,
`disorder` and `stale` are history variables: they name the circumstances under
which the code promises nothing, and the properties say "unless" of exactly these.
`sure` and `due` are the accounts whose last handler came through alone and the
roles it gave.

## 3. The runs

| Run | States | Shows |
|---|---|---|
| `judge` | 160 thousand | types, `JudgedAtMostOnce`, `FailedDispatchNeverJudged`, `AckedMeansJudged`, the inductive invariant `JudgeInv`; the refinement `RowLifecycle`; `MessagesDrain` and `QueuedJobIsJudged` |
| `grading_safety` | 1.2 million | types, `SoleGrader`, `AckedSubmitHasResult`, `ScoreNeverOverstated`, `SerialSummaryExact` |
| `grading_outcome` | 660 thousand | `VerdictsAgree`, `QuestionResultsAreFinal`, `UndisturbedResultSettles` |
| `session_safety` | 470 thousand | types, `ResultMeansSubmitted`, `AckedAnswersAreGraded`, `TimerNeverExtended`, `ProgressIsKept`, `ResultIsFinal`, and their invariant `SessionInv` |
| `admin_pages` | 830 thousand | types, `QuestionIsKept`, `NoQuestionTwice`, `PublishedIsReady`, `CleanShowsStored`, `AtRestShowsTheChosen`, `ActsAsShown`; `PagesSettle` |
| `admin_rows` | 1.1 million | types, `MarksFollowOptions`, `SavedIsWhatIsShown`, `SerialContentSound`, `ReportsHold`, `PublishedIsComplete`, `LastHandlerDecides`, `SnapshotFrozen`, `DrawerClosesForItsOwn` |
| `judge_retry` and the five below it in section 5 | | violations |

Bounds. Two jobs and two workers show every pair of callers and workers on one
or on two rows; jobs do not interact otherwise. `MaxRetry` 2 (3 in the code)
leaves a first, a middle and a last redelivery; `judge_retry` uses 3. Three
faults allow any fault to follow any two. Grading needs two graders for a race
and a retry, two coded answers for two workers that report to one result, and
one objective question as the part of the score that is known at once; essays
change only the status rule and are in `grading_outcome`, where a direct
submission also competes for the worker. `ExamSession` runs three requests,
because every known interference there has two, and a third can act after; two
questions, so that a save can be cut in half; a clock in which the window's
start, the personal limit and the window's end are different instants; and two
lives of the session row, so that a stale id is told from a current one. The
clock bound `MaxTime` lies after every deadline; nothing depends on later times.

The two runs of the administration put several modules in one state space, and move
one of them in each behaviour; the others stay at one initial state. They share no
variable, so that nothing is lost by it. `admin_pages`: a programming and a choice
question, which between them have all the rules; two questions and two sections,
for a question that could be twice in a paper; two titles, so that one is stored
and another typed; one question withdrawn, which meets every request before,
between and after its check and its write; one lost request, which may be any;
three list requests, so that one can overtake two; two tabs, one administrator and
one who is none, and two logins, so that a token can be another user's.
`admin_rows`: three options, the fewest of which a moved one passes another that
stays between, and one timer waiting, before which options are typed, marked and
added (two timers at once are left to the proof, which bounds them by no number);
two desks, two questions and a paper; two tabs, and two papers, so that a snapshot
can be of another paper than the exam's; two accounts, one of them the default
administrator, and two requests, so that one handler can come between any two
statements of another. Desks and tabs are interchangeable in `admin_rows`, which
has no liveness.

Deadlock checking is off where all calls may have been answered and nothing is
left to do.

Fairness. A goroutine that has begun keeps running unless its process dies, so
callers and workers get weak fairness; faults, crashes and restarts get none, and
nobody is obliged to call. asynq's own redelivery is part of the worker's fair
step. Liveness after faults is stated for `faults = MaxFaults`, i.e. once faults
have ceased. `ExamSession` has no liveness: nothing in the code submits or expires
a session on its own. A request of a page is answered in the end, if only by the
failure of its connection, so that answers and what follows them get weak fairness
in `admin_pages`; no administrator is obliged to anything, and losses get none.

Assumptions. A statement that reports an error was not applied, except for the
enqueue, which may have been. asynq does not deliver a message again while the
handler of an earlier delivery is running (a lease that expires under a live
handler is left out). Reads a step does not decide on are merged with the next one.
In `ExamSession` and the judge's modules the exam was published before. A handler
whose answer was lost has ended: nothing it does comes after the page learns of the
failure. The role tables and the copy of them that casbin keeps in memory are taken
as one, and its calls come one after another, although the enforcer is not a
synchronized one. A deleted row's id is never used again. A page is open in a
browser that keeps its handlers' order: timers fire in the order they were set, and
a handler runs to its next `await` undisturbed.

## 4. The proofs

`JudgePipelineProofs` proves for any sets of jobs, workers and verdicts, any
retry limit and any number of faults:

- `JudgeInvariant`, `JudgeTyping`: types and the inductive invariant;
- `AtMostOneExecution`, `FailedDispatchIsInert`, `AckAfterVerdict`;
- `PipelineImplementsLifecycle`: every step of the pipeline is a step of
  `TaskLifecycle` or leaves the rows alone.

The only assumption is `JudgeAssumption`: the bounds are natural numbers,
verdicts differ from the other statuses, and `None` is neither a job nor a
verdict.

The argument. `JudgedAtMostOnce` is not inductive: a worker about to run the
sandbox could hold a job that has been executed. What excludes it is a chain.
`Ownership`: a job is with one worker at most, and only while its message is out.
`DispatchAgrees`: until the caller has returned, or if it failed, the row is not
QUEUED. `WorkerAgrees`: a worker past `LoadTask` finds the row QUEUED, one past
`SaveRunning` finds it RUNNING, and before the sandbox nothing was executed.
`ExecutionsAgree`: code was run only for rows that are RUNNING or judged, which
`MarkRunning` refuses, and a judged row has had exactly one execution. Hence the
caller's save of QUEUED meets a row that no worker has touched, a redelivery is
refused after the first RUNNING, and a failed dispatch stays at PENDING. Typing is
carried along because a worker's job must be known to be one. The proof has one case per action; the refinement uses the
invariant to find the row in the status each transition of `task.go` starts from.

`GradingPipelineProofs` proves for any sets of graders, questions and jobs, any
verdicts and any number of faults:

- `GradingImplementsJudge`: every step of grading is a step of `JudgePipeline` or
  leaves the judge alone, so that all that is proved of the judge holds here;
- `GradingInvariant`, `GradingTypes`: types and the inductive invariant;
- `GradedOnce`, `SubmitLeavesResult`, `RowsHaveTheirVerdicts`, `ScoresAreOfRows`,
  `UndisturbedIsExact`, `RowsAreFinal`: all the safety the two runs check.

The assumption is `GradingAssumption`: coded questions are jobs, the three kinds of
questions are disjoint, `None` is not one, and verdicts differ from the other statuses.

The argument. That a verdict in a row is the one of its own execution needs the judge's
invariant, which `GradingImplementsJudge` supplies: a task keeps its verdict, and a
worker that reports holds the one it saved. To it come `SoleAgrees`: one grader is at
work, which has recorded all but what it has to do, and dispatched no more of it than
the question it holds; `NothingBefore`: before the result row there are no rows and no
tasks; `GraderAgrees` and `RowsAgree`: an outcome is of its question's kind. A settled
row is not written again, for graders insert only rows that are not there and a report
finds its own verdict. `ScoreNeverOverstated` follows, because a stale summary counts
rows that were settled when it was read (`ReportsAgree`). The exact summary needs a
second invariant: while nothing disturbs it, a grader has no verdict among its rows and
knows whether one is awaited, and a single report has read the rows that are there
(`UndisturbedAgrees`).

`ExamSessionProofs` proves for any finite sets of requests and questions, any
exam times, any clock bound and any number of reassignments:

- `SessionInvariant`, `SessionTyping`: types and the inductive invariant;
- `ResultsHaveSubmission`, `AnswersReachGrading`, `TimerIsNotExtended`,
  `ProgressKept`, `ResultsAreFinal`: all that `session_safety` checks.

The assumption is `SessionAssumption`: times are natural numbers, the exam lasts,
and NULL is neither a number nor the name of a handler.

The argument. Handlers write back copies, so that what a copy may hold is part of
the invariant. `IdsAgree`: a copy in use is of a row that was created, which is
also why a row created anew finds no result and no start under its id.
`SubmissionAgrees`: who grades session `i` finds the row gone or with a
submission time; a stale start cannot clear it, for its NULL does not overwrite.
`TimerAgrees`: a start time in a copy is at most the session's first start, or
the session has not begun and it is at most now. `SubmitsAgree`: only submits
grade, and a result means that one arrived; hence no promise is made while drafts
are graded. `StampsAgree`, `PromisesAgree`: promises stay behind the drafts, the
drafts read, and the answers graded. Typing needs `IdsAgree` and is carried along.
Lemmas say what one step does to the row, the drafts, the copies and the
histories; each conjunct follows from them.

`ExamConsoleProofs` proves for any sets of tabs, papers and candidates, under the
one assumption that no paper is called "none":

- `ConsoleInvariant`: typing, and an invariant that is inductive;
- `PublishedExamIsComplete`, `SnapshotIsFrozen`.

The argument. Publishing and closing write what they decided on a row read before,
and any save, publication or closing may have come between. `ReadsAgree` is what
such a row still means then: the row of a closing was of a published exam, so that
it has its window and the exam its snapshot, and neither goes away; the row of a
publication has a paper, which becomes the snapshot. That the snapshot stays is
the unique index alone. Steps of the pages touch neither, which `PageStep` says
once for all of them.

`ContentListsProofs` proves for any sets of desks, questions and papers, under the
assumption that questions and papers are told apart (`ListsAssumption`):

- `ListsInvariant`, `ListsTypes`: types and the inductive invariant;
- `SerialRequestsAreSafe`, `ReportsAreTrue`.

The argument. A row is checked and written in two steps. `ChecksHold` says that, as long
as no two requests overlapped, a request between the two would pass its check again, with
the rows as they are; so the write does what the check allowed. Reports need no such
proviso: each row of a batch is left, under way, done or failed and in one of the four
places (`Sorted`), and a deleted row never comes back (`Deleted`).

`OptionsEditorProofs` proves for any number of options:

- `OptionsInvariant`, `MarksStay`, `SavedAsShown`.

The argument. An edit changes the list at once and the marks when its timer fires.
`MarksAgree`: edited one at a time, the marked options are those of the letters, or, while
a timer waits, those at the positions it holds. A moved list is described by where each
position's option comes from (`Whence`, `MovesBackAndForth`), which the page computes for
positions and the library for lists. `SavedAsShown` holds however many timers wait: the last one to
fire sets all letters to the positions and the answer to letters that are there
(`LettersSettle`), and what is added, typed or marked while none waits keeps it so. Hence no
letter is twice (`FirstIsOnly`), and the letters the payload keeps are those of the
options shown as marked.

`PagesProofs` proves the pages of `admin_pages` for any constants, each page by itself and
then all in the specification of the run (`PagesInvariant`, `PagesTypes`). One section per
page:

Signing in, for any sets of tabs and people and any number of logins, under the
assumption that administrators are people and `Nobody` is not one: `AuthInvariant`,
`PageActsAsShown`. That a page acts as the user it shows follows from the token to the
request for its user and on to the requests for data (`TabAgrees`): the user shown
is the owner of the tab's copy, `/me` was asked with that copy by a page that showed
nobody and had nothing else under way, and requests for data were made with it. The
copy is what makes this hold, for another tab's login changes the token in storage
at any time. Tokens are numbered by their logins, so that a new one changes no older
one's owner, and a step concerns one tab (`OthersKept`).

The question page (`QuestionInvariant`, `TypedTextIsKept`): what was typed and is in no
payload is still in the form, and the payload under way has what was typed before it
(`SaveAgrees`); a page that is still new has created no more questions than answers were
lost (`PostsAgree`).

The pages of results (`DeskInvariant`, `DeskAtRest`): as long as answers come in order, the
last request under way is for the exam, and the row, that the page waits for.

The paper page (`PaperInvariant`, `QuestionsAreOnce`, `PublishedStaysReady`,
`CleanPageIsStored`), for any finite bank and any bounds (`PaperAssumption`). Sections and
outlines are `Sound`: no question is twice, and keys tell sections apart, which every way
of editing, loading and saving keeps; that a new section's key is fresh is a count of the
keys. `JobAgrees`: a save that publishes has questions, and creating a paper as published is
put off to its third request. `StoreAgrees`: between its requests a save has stored its own
paper, as far as it got. `PageAgrees`: what a page left alone shows is what is stored.
A question is `Firm` while no withdrawal of it is under way, or once one has crossed a check
(`crossed`). `ReadyAgrees`: the questions of a published paper are firm, and so are those of a
request between its check and its write. A check finds them firm or makes them so; a
withdrawal that begins afterwards either finds the paper published, and is refused, or is
entered in `crossed`. Hence a published paper is ready after each request, wherever the chain
stops, but for what crossed - which is what happens in `paper_unpublished`.

`RowsProofs` proves accounts and groups for any sets of them and any number of requests,
and then all subjects of `admin_rows` in the specification of the run (`RowsInvariant`,
`RowsTypes`):

- `AccountInvariant`, `AccountTypes`, `LastHandlerIsObeyed`, `DrawerKeepsToItsAccount`.

The assumption is `AccountAssumption`: the default administrator is an account, the forms
offer some of the roles there are, STUDENT and ADMIN among them, and "closed" is no account.

The argument. A handler that is alone with an account and has met no failure knows its roles
at each statement (`AloneKnows`): past its reading, they are those it read and has not yet taken away. So
its last statement leaves what it gives, whatever it found - none, two, or another's. Until
another handler comes to the account the roles stay (`SureHold`), but for a restart, which
adds the default administrator's and is entered in `due`; an account that was not yet created has none
(`FreshHold`). That a group that is gone has no members holds unless a joining had found it
(`GroupsHold`). On the page's side, until a form is closed while it saves, one request
of a form is under way and it is that form's own (`FormsAgree`), so that only its answer
closes the drawer.

Every safety property of the passing runs is proved. Only model-checked: liveness
(`MessagesDrain`, `QueuedJobIsJudged`, `UndisturbedResultSettles`, `PagesSettle`), which is
out of the proof system's reach.

## 5. Disagreements between documents or tests and the code

Each of these is a run that TLC finds violated, without any fault unless said
otherwise.

| Run | Promise | What the code does |
|---|---|---|
| `judge_retry` | retries through the queue | after RUNNING, one fault ends the job for ever: `MarkRunning` refuses every redelivery |
| `grading_lost_verdict` | results are written back | a worker faster than the grader's next insert finds no question result, and its verdict is dropped |
| `session_resurrected` | the final submission status is the backend's truth | a start that read before a submit writes IN_PROGRESS over SUBMITTED |
| `exam_downgraded` | a published or closed exam cannot be edited | only the page, on its copy, sees to it: a form opened before the publication stores DRAFT after it |
| `paper_unpublished` | a question a published paper uses cannot be unpublished | the check reads before a paper is published and the write comes after |
| `admin_role_lost` | the page sets the role of administrators | it stores ADMIN, the policies are for admin; the default administrator's account, once saved, is locked out until the server starts again |

Others of the same kind are in the models, as behaviours, and have no run of their
own:

- the grader's closing summary (`exam/grading.go:98`) overwrites one a worker has
  written meanwhile, and the result stays JUDGING, though "Backend calculates scores
  and stores the result" (`concepts/exam-lifecycle`, line 20); a grading that failed
  half-way leaves a result that a repeated submit takes for done (`grading.go:11`);
- the caller's QUEUED after the verdict (`exam/submission.go:85`) leaves a judged
  submission QUEUED;
- a save that read the session before a submit is acknowledged after the drafts were
  graded (`snapshot_service.go:451`), and a session started between the check and
  the deletion of RemoveCandidate is deleted (`exam/exam.go:244`);
- an expired token at the first loading is answered with another code than 0, which
  `fetchUserInfo` (`apps/admin/src/app.tsx:91`) turns into no user and the page into
  the forbidden one, although the comments (lines 101, 107, 130) keep that for who
  lacks the role and send the rest to the login page;
- logging out in a tab clears the token in storage, a newer login's as well;
- a paper whose loading failed is an empty form that can be saved over it;
- a paper whose save failed after its first request is created again by the next;
- edits typed while a save is under way are replaced by what the fetch after it
  brings.

## 6. Not modelled, and the plan

Left out for good: HTTP binding and JSON, the middleware's policies (one request at
a time), the sandbox's compiler, infrastructure, seeds, the documentation site, the
welcome page, account settings, texts and theme of the administration. Left out of
modelled parts: the callback of Logto (it sets a cookie that nothing reads) and the
login page's token parameter (nothing sends it); suspended accounts; filters, sorting
and paging of lists; client events beyond showing them; the operations
AddPaperQuestion, UpdatePaperQuestion, RemovePaperQuestion and AddTestCase, which no
page calls.

The administration came first in extending the model, because half of the code is
there, and the proofs cover what the runs check. What is left, in this order:

1. `ExamPublish`: the snapshot's contents against concurrent edits of the library;
   to examine: the snapshot as a state of the library.
2. `UserGroups` and `ExamAssignments`: saving and reparenting groups, and the forest;
   assigning groups, RemoveExamAssignment, and sessions that follow assignments.
3. `DesktopClient` composed with `ExamSession`: autosave, resume, submit.
4. A module of pure algorithms checked against reference definitions: objective
   marking, question id resolution in CreateSubmission, outline totals,
   descendants of a group.

Runs of these stay at two or three actors, two questions or groups and one exam.
