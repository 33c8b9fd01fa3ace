------------------------------ MODULE ExamConsole ------------------------------
(***************************************************************************)
(* One exam in the administration: the pages that create, edit, publish    *)
(* and close it and choose its candidates                                  *)
(* (apps/admin/src/pages/Examination), open in several tabs of one or      *)
(* several administrators, over the handlers they call                     *)
(* (internal/exam/exam.go, snapshot_service.go, user_group.go).  A page    *)
(* decides what it offers on the copy it loaded; the server decides on a   *)
(* row it read before it writes.                                           *)
(***************************************************************************)
EXTENDS Naturals, FiniteSets

CONSTANTS
  Tabs,        \* pages open at a time
  ExamPapers,  \* papers an exam can be bound to
  Candidates

VARIABLES
  exam,      \* the row: status, paper and whether it has a window
  snapshot,  \* paper the exam was published with, "none" before
  candidate, \* [Candidates -> session status, "none" without a session]
  tab        \* the pages: what each shows and what each waits for

consoleVars == <<exam, snapshot, candidate, tab>>

ASSUME ConsoleAssumption == "none" \notin ExamPapers

Stages   == {"DRAFT", "PUBLISHED", "CLOSED"}
ExamRows == [status : Stages \cup {"none"}, paper : ExamPapers \cup {"none"}, window : BOOLEAN]
NoExam   == [status |-> "none", paper |-> "none", window |-> FALSE]
Chosen   == {"NOT_STARTED", "IN_PROGRESS"}
Ops      == {"none", "load", "save", "publish", "close", "assign", "remove"}

(* page is where the tab is; seen and listed its copy of the exam and of   *)
(* its sessions; asked the request it waits for, sent, then read or done   *)
(* or refused; row what the server read for it; picks the paper it sends;  *)
(* whom the candidates it sends; stay whether the assignment dialog is     *)
(* open.                                                                   *)
Loading(page) ==
  [page |-> page, seen |-> NoExam, listed |-> [c \in Candidates |-> "none"], asked |-> "load",
   phase |-> "sent", row |-> NoExam, picks |-> "none", whom |-> {}, stay |-> FALSE]

Pages == {"list", "form", "publish", "detail"}
Picks == ExamPapers \cup {"none"}
TabRows ==
  [page : Pages, seen : ExamRows, listed : [Candidates -> Chosen \cup {"none"}], asked : Ops,
   phase : {"none", "sent", "read", "done", "refused"}, row : ExamRows, picks : Picks,
   whom : SUBSET Candidates, stay : BOOLEAN]

ConsoleTypeOK ==
  /\ exam \in ExamRows /\ snapshot \in Picks
  /\ candidate \in [Candidates -> Chosen \cup {"none"}]
  /\ tab \in [Tabs -> TabRows]

Listed == {c \in Candidates : candidate[c] # "none"}

ConsoleInit ==
  /\ \/ exam = NoExam
     \/ \E p \in ExamPapers : exam = [status |-> "DRAFT", paper |-> p, window |-> FALSE]
  /\ snapshot = "none" /\ candidate = [c \in Candidates |-> "none"]
  /\ tab = [t \in Tabs |-> Loading("list")]

-----------------------------------------------------------------------------
(* What the pages offer.                                                   *)

Free(t) == tab[t].asked = "none"
Ask(t, op, f) == tab' = [tab EXCEPT ![t] = [f EXCEPT !.asked = op, !.phase = "sent"]]
StoredUnchanged == UNCHANGED <<exam, snapshot, candidate>>

(* The pages of an exam in the actions of its row of the list, which are   *)
(* offered for drafts only, except the detail.  Every page loads when it   *)
(* is mounted.                                                             *)
OpenPage(t, page) ==
  /\ tab[t].page = "list" /\ Free(t)
  /\ tab[t].seen.status # "none"
  /\ page \in {"form", "publish"} => tab[t].seen.status = "DRAFT"
  /\ tab' = [tab EXCEPT ![t] = Loading(page)]
  /\ StoredUnchanged

(* canEditExam                                                             *)
CanEdit(seen) == seen.status \in {"none", "DRAFT"}

(* handleSubmit of the form, and createExam of the list, here while no     *)
(* exam is in it: the payload says DRAFT and has no window                 *)
(* (buildExamPayload).                                                     *)
SubmitForm(t, paper) ==
  /\ Free(t) /\ tab[t].page = "form" /\ tab[t].seen.status # "none" /\ CanEdit(tab[t].seen)
  /\ Ask(t, "save", [tab[t] EXCEPT !.picks = paper])
  /\ StoredUnchanged

CreateExam(t, paper) ==
  /\ Free(t) /\ tab[t].page = "list" /\ tab[t].seen.status = "none"
  /\ Ask(t, "save", [tab[t] EXCEPT !.picks = paper])
  /\ StoredUnchanged

(* The publish button of ExamPublish.                                      *)
CanAskToPublish(seen) == seen.paper # "none" /\ seen.status = "DRAFT"

SubmitPublish(t) ==
  /\ Free(t) /\ tab[t].page = "publish" /\ CanAskToPublish(tab[t].seen)
  /\ Ask(t, "publish", tab[t])
  /\ StoredUnchanged

(* runBatchCloseExams on the rows of the list that can be closed.          *)
SubmitClose(t) ==
  /\ Free(t) /\ tab[t].page = "list" /\ tab[t].seen.status = "PUBLISHED"
  /\ Ask(t, "close", tab[t])
  /\ StoredUnchanged

(* openAssign: the candidates that are not listed yet are offered.         *)
OpenAssign(t) ==
  /\ Free(t) /\ tab[t].page = "detail" /\ ~tab[t].stay
  /\ Ask(t, "load", [tab[t] EXCEPT !.stay = TRUE])
  /\ StoredUnchanged

OfferedFor(t) == {c \in Candidates : tab[t].listed[c] = "none"}

AssignCandidates(t, whom) ==
  /\ Free(t) /\ tab[t].stay /\ whom # {} /\ whom \subseteq OfferedFor(t)
  /\ Ask(t, "assign", [tab[t] EXCEPT !.whom = whom])
  /\ StoredUnchanged

(* removeCandidate, offered for the listed whose session has not started   *)
(* (canRemoveCandidate); the list of the tab may be old.                   *)
SubmitRemove(t, c) ==
  /\ Free(t) /\ tab[t].page = "detail" /\ ~tab[t].stay /\ tab[t].listed[c] = "NOT_STARTED"
  /\ Ask(t, "remove", [tab[t] EXCEPT !.whom = {c}])
  /\ StoredUnchanged

(* refreshAll, and the reload button of the list.                          *)
Refresh(t) ==
  /\ Free(t) /\ tab[t].page \in {"list", "detail"} /\ ~tab[t].stay
  /\ Ask(t, "load", tab[t])
  /\ StoredUnchanged

Leave(t) ==
  /\ tab[t].page # "list" /\ Free(t)
  /\ tab' = [tab EXCEPT ![t] = Loading("list")]
  /\ StoredUnchanged

-----------------------------------------------------------------------------
(* The server.                                                             *)

Sent(t, op) == tab[t].asked = op /\ tab[t].phase = "sent"
Read(t, op) == tab[t].asked = op /\ tab[t].phase = "read"
Phase(t, p) == tab' = [tab EXCEPT ![t].phase = p]

(* Any request can fail on its way, or be refused for what is left out     *)
(* here: the paper, the window, the role.                                  *)
ServeNot(t) ==
  /\ tab[t].phase \in {"sent", "read"} /\ Phase(t, "refused")
  /\ StoredUnchanged

(* GetExam, the pages of sessions.                                         *)
ServeLoad(t) ==
  /\ Sent(t, "load")
  /\ tab' = [tab EXCEPT ![t].phase = "done", ![t].seen = exam, ![t].listed = candidate]
  /\ StoredUnchanged

(* UpdateExam, which reads nothing and stores the body; CreateExam, of     *)
(* which the first is this exam and any other is another.                  *)
ServeSave(t) ==
  /\ Sent(t, "save")
  /\ exam' = IF tab[t].page = "form" \/ exam = NoExam
             THEN [status |-> "DRAFT", paper |-> tab[t].picks, window |-> FALSE] ELSE exam
  /\ Phase(t, "done")
  /\ UNCHANGED <<snapshot, candidate>>

ReadExam_Unchecked(t) ==
  /\ \/ Sent(t, "publish") /\ CanAskToPublish(exam)
     \/ Sent(t, "close")
  /\ tab' = [tab EXCEPT ![t].phase = "read", ![t].row = exam]
  /\ StoredUnchanged

(* PublishExamWithSnapshot and CloseExam read the exam and check its       *)
(* status,                                                                 *)
ReadExam(t) ==
  /\ \/ Sent(t, "publish") /\ CanAskToPublish(exam)
     \/ Sent(t, "close") /\ exam.status = "PUBLISHED"
  /\ tab' = [tab EXCEPT ![t].phase = "read", ![t].row = exam]
  /\ StoredUnchanged

CommitPublish_Again(t) ==
  /\ Read(t, "publish")
  /\ snapshot' = tab[t].row.paper
  /\ exam' = [exam EXCEPT !.status = "PUBLISHED", !.window = TRUE]
  /\ Phase(t, "done")
  /\ UNCHANGED candidate

(* then the one inserts the snapshot, which is unique, and updates the     *)
(* exam's status and window in the same transaction,                       *)
CommitPublish(t) ==
  /\ Read(t, "publish") /\ snapshot = "none"
  /\ snapshot' = tab[t].row.paper
  /\ exam' = [exam EXCEPT !.status = "PUBLISHED", !.window = TRUE]
  /\ Phase(t, "done")
  /\ UNCHANGED candidate

(* and the other writes back the row it read.                              *)
CommitClose(t) ==
  /\ Read(t, "close")
  /\ exam' = [tab[t].row EXCEPT !.status = "CLOSED"]
  /\ Phase(t, "done")
  /\ UNCHANGED <<snapshot, candidate>>

(* AssignExamTargets: a session for each candidate who has none.           *)
ServeAssign(t) ==
  /\ Sent(t, "assign") /\ snapshot # "none"
  /\ candidate' = [c \in Candidates |->
       IF c \in tab[t].whom /\ candidate[c] = "none" THEN "NOT_STARTED" ELSE candidate[c]]
  /\ Phase(t, "done")
  /\ UNCHANGED <<exam, snapshot>>

(* RemoveCandidate reads the session, then deletes it.                     *)
ReadSession(t) ==
  /\ Sent(t, "remove") /\ \E c \in tab[t].whom : candidate[c] = "NOT_STARTED"
  /\ Phase(t, "read")
  /\ StoredUnchanged

CommitRemove(t) ==
  /\ Read(t, "remove")
  /\ candidate' = [c \in Candidates |-> IF c \in tab[t].whom THEN "none" ELSE candidate[c]]
  /\ Phase(t, "done")
  /\ UNCHANGED <<exam, snapshot>>

(* The candidate starts, while the exam is open.                           *)
StartExamSession(c) ==
  /\ candidate[c] = "NOT_STARTED" /\ exam.status = "PUBLISHED"
  /\ candidate' = [candidate EXCEPT ![c] = "IN_PROGRESS"]
  /\ UNCHANGED <<exam, snapshot, tab>>

-----------------------------------------------------------------------------
(* The answers, as the pages take them.                                    *)

Answered(t) == tab[t].phase \in {"done", "refused"}
Went(t)     == tab[t].phase = "done"

(* After a save the list, after a publication the detail, mounted and so   *)
(* loaded; after a closing the list, after an assignment or a removal the  *)
(* detail loads again.  A refusal leaves the page as it was, the dialog    *)
(* open.                                                                   *)
Return(t) ==
  /\ Answered(t)
  /\ \/ /\ ~Went(t) \/ tab[t].asked = "load"
        /\ tab' = [tab EXCEPT ![t] = [@ EXCEPT !.asked = "none", !.phase = "none", !.row = NoExam,
                                               !.picks = "none", !.whom = {}]]
     \/ Went(t) /\ tab[t].asked = "save" /\ tab' = [tab EXCEPT ![t] = Loading("list")]
     \/ Went(t) /\ tab[t].asked = "publish" /\ tab' = [tab EXCEPT ![t] = Loading("detail")]
     \/ /\ Went(t) /\ tab[t].asked \in {"close", "assign", "remove"}
        /\ Ask(t, "load", [tab[t] EXCEPT !.stay = FALSE, !.whom = {}, !.row = NoExam])
  /\ StoredUnchanged

Administers(t) ==
  \/ \E page \in {"form", "publish", "detail"} : OpenPage(t, page)
  \/ \E p \in ExamPapers : SubmitForm(t, p) \/ CreateExam(t, p)
  \/ SubmitPublish(t) \/ SubmitClose(t) \/ OpenAssign(t) \/ Refresh(t) \/ Leave(t)
  \/ \E whom \in SUBSET Candidates : AssignCandidates(t, whom)
  \/ \E c \in Candidates : SubmitRemove(t, c)

TabGoesOn(t) ==
  \/ ServeNot(t) \/ ServeLoad(t) \/ ServeSave(t) \/ ReadExam(t) \/ CommitPublish(t)
  \/ CommitClose(t) \/ ServeAssign(t) \/ ReadSession(t) \/ CommitRemove(t) \/ Return(t)

ConsoleNext ==
  \/ \E t \in Tabs : Administers(t) \/ TabGoesOn(t)
  \/ \E c \in Candidates : StartExamSession(c)

ConsoleSpec == ConsoleInit /\ [][ConsoleNext]_consoleVars

-----------------------------------------------------------------------------
(* Properties.                                                             *)

(* An exam that is published or closed has the snapshot its candidates are *)
(* examined on, and a window, whatever saves, publications and closings    *)
(* crossed each other; and nobody has a session in an exam that was never  *)
(* published, though the dialog that assigns is offered for drafts too.    *)
PublishedIsComplete ==
  /\ exam.status \in {"PUBLISHED", "CLOSED"} => snapshot # "none" /\ exam.window
  /\ snapshot = "none" => Listed = {}

(* What candidates are examined on is fixed when it is published.          *)
SnapshotFrozen == [][snapshot # "none" => snapshot' = snapshot]_consoleVars

(* The form says that an exam that was published or closed cannot be       *)
(* edited.  Nothing but the form makes sure of it.                         *)
LockedAfterPublish ==
  [][exam.status \in {"PUBLISHED", "CLOSED"} => exam'.status # "DRAFT"]_consoleVars
=============================================================================
