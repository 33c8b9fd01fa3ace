--------------------------- MODULE ExamConsoleProofs ---------------------------
(***************************************************************************)
(* What ExamConsole promises of one exam, for any number of tabs, papers   *)
(* and candidates.  A handler writes what it decided on a row it read      *)
(* before, so that the invariant says what such a row still means by then  *)
(* (ReadsAgree).                                                           *)
(***************************************************************************)
EXTENDS ExamConsole, TLAPS

(* A row that is about to be closed is of an exam that was published, and  *)
(* one that is about to be published has a paper.                          *)
ReadsAgree ==
  \A t \in Tabs : tab[t].phase = "read" =>
    /\ tab[t].asked = "close" =>
         tab[t].row.status = "PUBLISHED" /\ tab[t].row.window /\ snapshot # "none"
    /\ tab[t].asked = "publish" => tab[t].row.paper # "none"

ConsoleInv == ConsoleTypeOK /\ PublishedIsComplete /\ ReadsAgree

-----------------------------------------------------------------------------
(* Typing.                                                                 *)

(* A page just mounted is a page that waits for its load.                  *)
LEMMA LoadingIs ==
  ASSUME NEW page \in Pages
  PROVE  /\ Loading(page) \in TabRows
         /\ Loading(page).phase = "sent" /\ Loading(page).asked = "load"
BY DEF Loading, TabRows, Pages, Picks, Ops, Chosen, ExamRows, NoExam, Stages

(* A request that goes on is one in another phase.                         *)
LEMMA PhaseTyped ==
  ASSUME ConsoleTypeOK, NEW t \in Tabs, NEW p \in {"read", "done", "refused"}, Phase(t, p)
  PROVE  /\ tab' \in [Tabs -> TabRows] /\ tab'[t].phase = p
         /\ tab'[t].asked = tab[t].asked
         /\ \A u \in Tabs \ {t} : tab'[u] = tab[u]
<1>1. tab \in [Tabs -> TabRows] /\ tab[t] \in TabRows
  BY DEF ConsoleTypeOK
<1>2. [tab[t] EXCEPT !.phase = p] \in TabRows
  BY <1>1 DEF TabRows
<1>3. tab' = [tab EXCEPT ![t] = [tab[t] EXCEPT !.phase = p]]
  BY <1>1 DEF Phase
<1>4. [tab[t] EXCEPT !.phase = p].phase = p /\ [tab[t] EXCEPT !.phase = p].asked = tab[t].asked
  BY <1>1 DEF TabRows
<1>5. QED
  BY <1>1, <1>2, <1>3, <1>4

(* What a page asks for is one of its operations.                          *)
LEMMA AskTyped ==
  ASSUME ConsoleTypeOK, NEW t \in Tabs, NEW op \in Ops, NEW f \in TabRows, Ask(t, op, f)
  PROVE  /\ tab' \in [Tabs -> TabRows] /\ tab'[t].phase = "sent"
         /\ \A u \in Tabs \ {t} : tab'[u] = tab[u]
<1>1. tab \in [Tabs -> TabRows]
  BY DEF ConsoleTypeOK
<1>2. DEFINE g == [f EXCEPT !.asked = op, !.phase = "sent"]
<1>3. g \in TabRows /\ g.phase = "sent"
  BY DEF TabRows
<1>4. tab' = [tab EXCEPT ![t] = g]
  BY DEF Ask
<1>5. QED
  BY <1>1, <1>3, <1>4

-----------------------------------------------------------------------------
(* Steps that publish and close nothing.                                   *)

(* No tab has read a row for a publication or a closing in this step.      *)
NothingRead ==
  \A t \in Tabs : \/ tab'[t] = tab[t]
                  \/ tab'[t].phase # "read"
                  \/ tab'[t].asked \notin {"publish", "close"}

(* What was read for them before still means what it did.                  *)
LEMMA ReadsStay ==
  ASSUME ConsoleInv, NothingRead, snapshot # "none" => snapshot' # "none"
  PROVE  ReadsAgree'
BY DEF ConsoleInv, ReadsAgree, NothingRead

(* A step of the pages alone keeps the invariant.                          *)
LEMMA PageStep ==
  ASSUME ConsoleInv, StoredUnchanged, tab' \in [Tabs -> TabRows], NothingRead
  PROVE  ConsoleInv'
<1>1. ReadsAgree'
  BY ReadsStay DEF StoredUnchanged
<1>2. QED
  BY <1>1 DEF ConsoleInv, StoredUnchanged, ConsoleTypeOK, PublishedIsComplete, Listed

(* A tab is sent to a page, which loads.                                   *)
LEMMA Mounts ==
  ASSUME ConsoleInv, StoredUnchanged, NEW t \in Tabs, NEW page \in Pages,
         tab' = [tab EXCEPT ![t] = Loading(page)]
  PROVE  ConsoleInv'
BY PageStep, LoadingIs DEF ConsoleInv, ConsoleTypeOK, NothingRead

(* A tab asks for something.                                               *)
LEMMA Asks ==
  ASSUME ConsoleInv, StoredUnchanged, NEW t \in Tabs, NEW op \in Ops, NEW f \in TabRows,
         Ask(t, op, f)
  PROVE  ConsoleInv'
BY PageStep, AskTyped DEF ConsoleInv, NothingRead

(* What an administrator does keeps the invariant: nothing but pages.      *)
LEMMA AdministersKeeps ==
  ASSUME ConsoleInv, NEW t \in Tabs, Administers(t)
  PROVE  ConsoleInv'
<1>1. tab[t] \in TabRows
  BY DEF ConsoleInv, ConsoleTypeOK
<1>2. ASSUME NEW page \in {"form", "publish", "detail"}, OpenPage(t, page)
      PROVE  ConsoleInv'
  BY <1>2, Mounts DEF OpenPage, Pages
<1>3. ASSUME NEW p \in ExamPapers, SubmitForm(t, p) \/ CreateExam(t, p)
      PROVE  ConsoleInv'
  <2>1. [tab[t] EXCEPT !.picks = p] \in TabRows
    BY <1>1 DEF TabRows, Picks
  <2>2. QED
    BY <1>3, <2>1, Asks DEF SubmitForm, CreateExam, Ops
<1>4. CASE SubmitPublish(t) \/ SubmitClose(t) \/ Refresh(t)
  BY <1>1, <1>4, Asks DEF SubmitPublish, SubmitClose, Refresh, Ops
<1>5. CASE OpenAssign(t)
  <2>1. [tab[t] EXCEPT !.stay = TRUE] \in TabRows
    BY <1>1 DEF TabRows
  <2>2. QED
    BY <1>5, <2>1, Asks DEF OpenAssign, Ops
<1>6. CASE Leave(t)
  BY <1>6, Mounts DEF Leave, Pages
<1>7. ASSUME NEW whom \in SUBSET Candidates, AssignCandidates(t, whom)
      PROVE  ConsoleInv'
  <2>1. [tab[t] EXCEPT !.whom = whom] \in TabRows
    BY <1>1 DEF TabRows
  <2>2. QED
    BY <1>7, <2>1, Asks DEF AssignCandidates, Ops
<1>8. ASSUME NEW c \in Candidates, SubmitRemove(t, c)
      PROVE  ConsoleInv'
  <2>1. [tab[t] EXCEPT !.whom = {c}] \in TabRows
    BY <1>1 DEF TabRows
  <2>2. QED
    BY <1>8, <2>1, Asks DEF SubmitRemove, Ops
<1>9. QED
  BY <1>2, <1>3, <1>4, <1>5, <1>6, <1>7, <1>8 DEF Administers

(* Answers change pages only.                                              *)
LEMMA ReturnKeeps ==
  ASSUME ConsoleInv, NEW t \in Tabs, Return(t)
  PROVE  ConsoleInv'
<1>1. tab \in [Tabs -> TabRows] /\ tab[t] \in TabRows /\ StoredUnchanged
  BY DEF ConsoleInv, ConsoleTypeOK, Return
<1>2. DEFINE free == [tab[t] EXCEPT !.asked = "none", !.phase = "none", !.row = NoExam,
                                    !.picks = "none", !.whom = {}]
             past == [tab[t] EXCEPT !.stay = FALSE, !.whom = {}, !.row = NoExam]
<1>3. NoExam \in ExamRows
  BY DEF NoExam, ExamRows
<1>4. free \in TabRows /\ free.phase = "none"
  BY <1>1, <1>3 DEF TabRows, Ops, Picks
<1>5. past \in TabRows
  BY <1>1, <1>3 DEF TabRows
<1>6. CASE tab' = [tab EXCEPT ![t] = free]
  <2>1. tab' \in [Tabs -> TabRows] /\ NothingRead
    BY <1>1, <1>4, <1>6 DEF NothingRead
  <2>2. QED
    BY <1>1, <2>1, PageStep
<1>7. CASE Ask(t, "load", past)
  BY <1>1, <1>5, <1>7, Asks DEF Ops
<1>8. ASSUME NEW page \in Pages, tab' = [tab EXCEPT ![t] = Loading(page)]
      PROVE  ConsoleInv'
  BY <1>1, <1>8, Mounts
<1>9. QED
  BY <1>1, <1>6, <1>7, <1>8 DEF Return, Pages

-----------------------------------------------------------------------------
(* The server.                                                             *)

(* A request that is done or refused has read nothing.                     *)
LEMMA DoneReadsNothing ==
  ASSUME ConsoleInv, NEW t \in Tabs, NEW p \in {"done", "refused"}, Phase(t, p)
  PROVE  tab' \in [Tabs -> TabRows] /\ NothingRead
BY PhaseTyped DEF ConsoleInv, NothingRead

(* Refusals, and the readings of a load and of a removal.                  *)
LEMMA ReadingKeeps ==
  ASSUME ConsoleInv, NEW t \in Tabs, ServeNot(t) \/ ServeLoad(t) \/ ReadSession(t)
  PROVE  ConsoleInv'
<1>1. tab \in [Tabs -> TabRows] /\ tab[t] \in TabRows /\ StoredUnchanged
  BY DEF ConsoleInv, ConsoleTypeOK, ServeNot, ServeLoad, ReadSession
<1>2. CASE ServeNot(t)
  BY <1>1, <1>2, DoneReadsNothing, PageStep DEF ServeNot
<1>3. CASE ServeLoad(t)
  <2>1. DEFINE loaded == [tab[t] EXCEPT !.phase = "done", !.seen = exam, !.listed = candidate]
  <2>2. loaded \in TabRows /\ loaded.phase = "done"
    BY <1>1 DEF TabRows, ConsoleInv, ConsoleTypeOK
  <2>3. tab' = [tab EXCEPT ![t] = loaded]
    BY <1>1, <1>3 DEF ServeLoad
  <2>4. tab' \in [Tabs -> TabRows] /\ NothingRead
    BY <1>1, <2>2, <2>3 DEF NothingRead
  <2>5. QED
    BY <1>1, <2>4, PageStep
<1>4. CASE ReadSession(t)
  <2>1. tab' \in [Tabs -> TabRows] /\ NothingRead
    BY <1>4, PhaseTyped DEF ReadSession, Sent, ConsoleInv, NothingRead
  <2>2. QED
    BY <1>1, <2>1, PageStep
<1>5. QED
  BY <1>2, <1>3, <1>4

(* Whatever is saved is a draft, for which nothing is promised.            *)
LEMMA SaveKeeps ==
  ASSUME ConsoleInv, NEW t \in Tabs, ServeSave(t)
  PROVE  ConsoleInv'
<1>1. tab' \in [Tabs -> TabRows] /\ NothingRead
  BY DoneReadsNothing DEF ServeSave
<1>2. UNCHANGED <<snapshot, candidate>> /\ (exam' = exam \/ exam'.status = "DRAFT")
  BY DEF ServeSave
<1>3. tab[t].picks \in Picks
  BY DEF ConsoleInv, ConsoleTypeOK, TabRows
<1>4. exam' \in ExamRows
  BY <1>3 DEF ServeSave, ConsoleInv, ConsoleTypeOK, ExamRows, Stages, Picks
<1>5. ReadsAgree'
  BY <1>1, <1>2, ReadsStay
<1>6. QED
  BY <1>1, <1>2, <1>4, <1>5 DEF ConsoleInv, ConsoleTypeOK, PublishedIsComplete, Listed

(* The row read for a closing is of a published exam, that for a           *)
(* publication has a paper: the checks of the two handlers.                *)
LEMMA ReadExamKeeps ==
  ASSUME ConsoleInv, NEW t \in Tabs, ReadExam(t)
  PROVE  ConsoleInv'
<1>1. tab \in [Tabs -> TabRows] /\ tab[t] \in TabRows /\ exam \in ExamRows
  BY DEF ConsoleInv, ConsoleTypeOK
<1>2. DEFINE reading == [tab[t] EXCEPT !.phase = "read", !.row = exam]
<1>3. reading \in TabRows /\ reading.asked = tab[t].asked /\ reading.row = exam
  BY <1>1 DEF TabRows
<1>4. tab' = [tab EXCEPT ![t] = reading] /\ StoredUnchanged
  BY <1>1 DEF ReadExam
<1>5. tab' \in [Tabs -> TabRows] /\ tab'[t] = reading /\ \A u \in Tabs \ {t} : tab'[u] = tab[u]
  BY <1>1, <1>3, <1>4
<1>6. /\ reading.asked = "close" => exam.status = "PUBLISHED" /\ exam.window /\ snapshot # "none"
      /\ reading.asked = "publish" => exam.paper # "none"
  BY <1>3 DEF ReadExam, Sent, CanAskToPublish, ConsoleInv, PublishedIsComplete
<1>7. ReadsAgree'
  BY <1>3, <1>4, <1>5, <1>6 DEF ConsoleInv, ReadsAgree, StoredUnchanged
<1>8. QED
  BY <1>4, <1>5, <1>7
     DEF ConsoleInv, ConsoleTypeOK, PublishedIsComplete, Listed, StoredUnchanged

(* A publication leaves the snapshot and a window.                         *)
LEMMA PublishKeeps ==
  ASSUME ConsoleInv, NEW t \in Tabs, CommitPublish(t)
  PROVE  ConsoleInv'
<1>1. tab' \in [Tabs -> TabRows] /\ NothingRead
  BY DoneReadsNothing DEF CommitPublish
<1>2. tab[t].row.paper \in Picks /\ tab[t].row.paper # "none"
  BY DEF CommitPublish, Read, ConsoleInv, ReadsAgree, ConsoleTypeOK, TabRows, ExamRows, Picks
<1>3. exam' \in ExamRows /\ exam'.window
  BY DEF CommitPublish, ConsoleInv, ConsoleTypeOK, ExamRows, Stages
<1>4. snapshot' \in Picks /\ snapshot' # "none" /\ candidate' = candidate
  BY <1>2 DEF CommitPublish
<1>5. ReadsAgree'
  BY <1>1, <1>4, ReadsStay
<1>6. QED
  BY <1>1, <1>3, <1>4, <1>5 DEF ConsoleInv, ConsoleTypeOK, PublishedIsComplete

(* A closing writes back a row that was of a published exam.               *)
LEMMA CloseKeeps ==
  ASSUME ConsoleInv, NEW t \in Tabs, CommitClose(t)
  PROVE  ConsoleInv'
<1>1. tab' \in [Tabs -> TabRows] /\ NothingRead
  BY DoneReadsNothing DEF CommitClose
<1>2. tab[t].row \in ExamRows /\ tab[t].row.window /\ snapshot # "none"
  BY DEF CommitClose, Read, ConsoleInv, ReadsAgree, ConsoleTypeOK, TabRows
<1>3. exam' \in ExamRows /\ exam'.window /\ UNCHANGED <<snapshot, candidate>>
  BY <1>2 DEF CommitClose, ExamRows, Stages
<1>4. ReadsAgree'
  BY <1>1, <1>3, ReadsStay
<1>5. QED
  BY <1>1, <1>2, <1>3, <1>4 DEF ConsoleInv, ConsoleTypeOK, PublishedIsComplete

(* Candidates get sessions of an exam that has a snapshot, and lose them.  *)
LEMMA SessionsKeep ==
  ASSUME ConsoleInv, NEW t \in Tabs, ServeAssign(t) \/ CommitRemove(t)
  PROVE  ConsoleInv'
<1>1. tab' \in [Tabs -> TabRows] /\ NothingRead
  BY DoneReadsNothing DEF ServeAssign, CommitRemove
<1>2. candidate' \in [Candidates -> Chosen \cup {"none"}] /\ UNCHANGED <<exam, snapshot>>
  BY DEF ServeAssign, CommitRemove, ConsoleInv, ConsoleTypeOK, Chosen
<1>3. snapshot = "none" => Listed' = {}
  BY DEF ServeAssign, CommitRemove, ConsoleInv, PublishedIsComplete, Listed
<1>4. ReadsAgree'
  BY <1>1, <1>2, ReadsStay
<1>5. QED
  BY <1>1, <1>2, <1>3, <1>4 DEF ConsoleInv, ConsoleTypeOK, PublishedIsComplete

(* A candidate starts a session there is.                                  *)
LEMMA StartKeeps ==
  ASSUME ConsoleInv, NEW c \in Candidates, StartExamSession(c)
  PROVE  ConsoleInv'
<1>1. UNCHANGED <<exam, snapshot, tab>> /\ candidate' = [candidate EXCEPT ![c] = "IN_PROGRESS"]
  BY DEF StartExamSession
<1>2. candidate' \in [Candidates -> Chosen \cup {"none"}]
  BY <1>1 DEF ConsoleInv, ConsoleTypeOK, Chosen
<1>3. c \in Listed
  BY DEF StartExamSession, Listed
<1>4. QED
  BY <1>1, <1>2, <1>3 DEF ConsoleInv, ConsoleTypeOK, PublishedIsComplete, ReadsAgree

-----------------------------------------------------------------------------
(* The theorems.                                                           *)

LEMMA ConsoleStart ==
  ConsoleInit => ConsoleInv
<1> SUFFICES ASSUME ConsoleInit PROVE ConsoleInv
  OBVIOUS
<1>1. exam \in ExamRows /\ exam.status \in {"none", "DRAFT"}
  <2>1. CASE exam = NoExam
    BY <2>1 DEF ExamRows, NoExam
  <2>2. ASSUME NEW p \in ExamPapers, exam = [status |-> "DRAFT", paper |-> p, window |-> FALSE]
        PROVE  exam \in ExamRows /\ exam.status = "DRAFT"
    BY <2>2 DEF ExamRows, Stages
  <2>3. QED
    BY <2>1, <2>2 DEF ConsoleInit, NoExam
<1>2. /\ tab \in [Tabs -> TabRows]
      /\ \A t \in Tabs : tab[t].phase = "sent"
  BY LoadingIs DEF ConsoleInit, Pages
<1>3. QED
  BY <1>1, <1>2
     DEF ConsoleInit, ConsoleInv, ConsoleTypeOK, PublishedIsComplete, Listed, ReadsAgree, Picks, Chosen

LEMMA ConsoleStep ==
  ConsoleInv /\ [ConsoleNext]_consoleVars => ConsoleInv'
<1> SUFFICES ASSUME ConsoleInv, [ConsoleNext]_consoleVars PROVE ConsoleInv'
  OBVIOUS
<1>1. ASSUME NEW t \in Tabs, TabGoesOn(t)
      PROVE  ConsoleInv'
  BY <1>1, ReadingKeeps, SaveKeeps, ReadExamKeeps, PublishKeeps, CloseKeeps, SessionsKeep, ReturnKeeps
     DEF TabGoesOn
<1>2. CASE UNCHANGED consoleVars
  BY <1>2 DEF consoleVars, ConsoleInv, ConsoleTypeOK, PublishedIsComplete, Listed, ReadsAgree
<1>3. QED
  BY <1>1, <1>2, AdministersKeeps, StartKeeps DEF ConsoleNext

(* Rows, pages and what handlers have read stay consistent, however the    *)
(* requests of the tabs cross each other.                                  *)
THEOREM ConsoleInvariant == ConsoleSpec => []ConsoleInv
BY ConsoleStart, ConsoleStep, PTL DEF ConsoleSpec

(* PublishExamWithSnapshot, UpdateExam, CloseExam and AssignExamTargets    *)
(* never leave a published or closed exam without snapshot or window, nor  *)
(* a candidate in an exam without one.                                     *)
THEOREM PublishedExamIsComplete == ConsoleSpec => []PublishedIsComplete
<1>1. ConsoleInv => PublishedIsComplete
  BY DEF ConsoleInv
<1>2. QED
  BY <1>1, ConsoleInvariant, PTL

(* The unique index on the exam's snapshot keeps the first one for ever.   *)
THEOREM SnapshotIsFrozen == ConsoleSpec => SnapshotFrozen
<1>1. [ConsoleNext]_consoleVars => [snapshot # "none" => snapshot' = snapshot]_consoleVars
  BY DEF ConsoleNext, Administers, TabGoesOn, StoredUnchanged, consoleVars, OpenPage, SubmitForm,
         CreateExam, SubmitPublish, SubmitClose, OpenAssign, Refresh, Leave, AssignCandidates,
         SubmitRemove, ServeNot, ServeLoad, ServeSave, ReadExam, CommitPublish, CommitClose,
         ServeAssign, ReadSession, CommitRemove, Return, StartExamSession
<1>2. QED
  BY <1>1, PTL DEF ConsoleSpec, SnapshotFrozen
=============================================================================
