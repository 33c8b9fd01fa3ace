------------------------------ MODULE ResultsDesk -------------------------------
(***************************************************************************)
(* The three pages that show what the server has: results of an exam       *)
(* (Submissions), client events of an exam (Events), judge tasks           *)
(* (JudgeTasks).  A page keeps a list and a drawer, and fetches both; it   *)
(* gives its requests no order, so an answer is taken for what the page    *)
(* shows by then.                                                          *)
(***************************************************************************)
EXTENDS Naturals, SequencesExt

CONSTANTS
  Sittings,      \* exams
  Entries,       \* rows a list can have
  NoSitting,     \* no exam is chosen; the page of judge tasks has none
  NoEntry,
  MaxListings,   \* bound: list requests under way
  MaxReadings    \* bound: detail requests under way

VARIABLES
  desk,     \* the page: its kind, the chosen exam, list and drawer
  listing,  \* list requests under way, in the order they were sent
  reading,  \* detail requests under way, likewise
  offering, \* the list of exams is under way
  disorder  \* history, since nothing was under way: a request failed, or was
            \* answered before an older one

resultVars == <<desk, listing, reading, offering, disorder>>

ASSUME ResultAssumption ==
  /\ NoSitting \notin Sittings /\ NoEntry \notin Entries
  /\ MaxListings \in Nat \ {0} /\ MaxReadings \in Nat \ {0}

Kinds == {"results", "events", "tasks"}
Selections == Sittings \cup {NoSitting}

ResultTypeOK ==
  /\ desk.kind \in Kinds /\ desk.exam \in Selections /\ desk.shown \in Selections \cup {"nothing"}
  /\ {desk.loading, desk.open, desk.spinning, offering, disorder.list, disorder.detail} \subseteq BOOLEAN
  /\ {desk.detail, desk.asked} \subseteq Entries \cup {NoEntry}
  /\ listing \in Seq(Selections) /\ Len(listing) <= MaxListings
  /\ reading \in Seq(Entries) /\ Len(reading) <= MaxReadings

(* The effects of the first rendering: the exams, and the tasks.           *)
ResultInit ==
  /\ \E k \in Kinds :
       /\ desk = [kind |-> k, exam |-> NoSitting, shown |-> "nothing", loading |-> k = "tasks",
                  open |-> FALSE, detail |-> NoEntry, asked |-> NoEntry, spinning |-> FALSE]
       /\ listing = IF k = "tasks" THEN <<NoSitting>> ELSE <<>>
       /\ offering = (k # "tasks")
  /\ reading = <<>> /\ disorder = [list |-> FALSE, detail |-> FALSE]

-----------------------------------------------------------------------------
(* The list.                                                               *)

(* fetchResults, fetchEvents: nothing without an exam; fetchTasks.         *)
Fetches(page) ==
  IF page.kind # "tasks" /\ page.exam = NoSitting
  THEN desk' = page /\ UNCHANGED <<listing, disorder>>
  ELSE /\ Len(listing) < MaxListings
       /\ desk' = [page EXCEPT !.loading = TRUE]
       /\ listing' = Append(listing, page.exam)
       /\ disorder' = [disorder EXCEPT !.list = @ /\ listing # <<>>]

(* The exams come: the first one is chosen unless there is one, and the    *)
(* effect fetches when the choice changed.                                 *)
ExamsCome ==
  /\ offering /\ offering' = FALSE
  /\ \E first \in Selections :
       IF desk.exam = NoSitting /\ first # NoSitting
       THEN Fetches([desk EXCEPT !.exam = first]) ELSE UNCHANGED <<desk, listing, disorder>>
  /\ UNCHANGED reading

ChooseExam_Unfetched(e) ==
  /\ desk.kind # "tasks" /\ e # desk.exam /\ (e = NoSitting => desk.kind = "events")
  /\ desk' = [desk EXCEPT !.exam = e]
  /\ UNCHANGED <<listing, reading, offering, disorder>>

(* onChange of the selection; only the one of the events can be cleared.   *)
ChooseExam(e) ==
  /\ desk.kind # "tasks" /\ e # desk.exam /\ (e = NoSitting => desk.kind = "events")
  /\ Fetches([desk EXCEPT !.exam = e])
  /\ UNCHANGED <<reading, offering>>

(* The reload buttons.                                                     *)
ReloadList ==
  /\ Fetches(desk) /\ UNCHANGED <<reading, offering>>

(* Another language: the effects run again, the exams' and the list's.     *)
SwitchLanguage ==
  /\ ~offering /\ offering' = (desk.kind # "tasks")
  /\ Fetches(desk) /\ UNCHANGED reading

(* An answer, in any order: the list is replaced, the loading is over.     *)
ListComes(i) ==
  /\ i \in 1..Len(listing)
  /\ desk' = [desk EXCEPT !.shown = listing[i], !.loading = FALSE]
  /\ listing' = RemoveAt(listing, i)
  /\ disorder' = [disorder EXCEPT !.list = @ \/ i # 1]
  /\ UNCHANGED <<reading, offering>>

(* A failure leaves the list that was there.                               *)
ListFails(i) ==
  /\ i \in 1..Len(listing)
  /\ desk' = [desk EXCEPT !.loading = FALSE]
  /\ listing' = RemoveAt(listing, i)
  /\ disorder' = [disorder EXCEPT !.list = TRUE]
  /\ UNCHANGED <<reading, offering>>

ExamsFail ==
  /\ offering /\ offering' = FALSE
  /\ UNCHANGED <<desk, listing, reading, disorder>>

-----------------------------------------------------------------------------
(* The drawer.                                                             *)

(* openDetail, of results and tasks: the drawer opens on what it showed    *)
(* before, under a spinner.                                                *)
OpenDetail(r) ==
  /\ desk.kind # "events" /\ desk.shown # "nothing" /\ ~desk.open
  /\ Len(reading) < MaxReadings
  /\ desk' = [desk EXCEPT !.open = TRUE, !.spinning = TRUE, !.asked = r]
  /\ reading' = Append(reading, r)
  /\ disorder' = [disorder EXCEPT !.detail = @ /\ reading # <<>>]
  /\ UNCHANGED <<listing, offering>>

(* The drawer of the events shows the row itself.                          *)
ShowEvent(r) ==
  /\ desk.kind = "events" /\ desk.exam # NoSitting /\ desk.shown # "nothing" /\ ~desk.open
  /\ desk' = [desk EXCEPT !.open = TRUE, !.asked = r, !.detail = r]
  /\ UNCHANGED <<listing, reading, offering, disorder>>

DetailComes_Index(i) ==
  /\ i \in 1..Len(reading)
  /\ desk' = [desk EXCEPT !.detail = i, !.spinning = FALSE]
  /\ reading' = RemoveAt(reading, i)
  /\ disorder' = [disorder EXCEPT !.detail = @ \/ i # 1]
  /\ UNCHANGED <<listing, offering>>

DetailComes(i) ==
  /\ i \in 1..Len(reading)
  /\ desk' = [desk EXCEPT !.detail = reading[i], !.spinning = FALSE]
  /\ reading' = RemoveAt(reading, i)
  /\ disorder' = [disorder EXCEPT !.detail = @ \/ i # 1]
  /\ UNCHANGED <<listing, offering>>

DetailFails(i) ==
  /\ i \in 1..Len(reading)
  /\ desk' = [desk EXCEPT !.spinning = FALSE]
  /\ reading' = RemoveAt(reading, i)
  /\ disorder' = [disorder EXCEPT !.detail = TRUE]
  /\ UNCHANGED <<listing, offering>>

CloseDetail ==
  /\ desk.open
  /\ desk' = [desk EXCEPT !.open = FALSE, !.detail = IF desk.kind = "events" THEN NoEntry ELSE @]
  /\ UNCHANGED <<listing, reading, offering, disorder>>

ListGoesOn   == \E i \in 1..MaxListings : ListComes(i) \/ ListFails(i)
DetailGoesOn == \E i \in 1..MaxReadings : DetailComes(i) \/ DetailFails(i)

ResultNext ==
  \/ ExamsCome \/ ExamsFail \/ ListGoesOn \/ DetailGoesOn
  \/ ReloadList \/ SwitchLanguage \/ CloseDetail
  \/ \E e \in Selections : ChooseExam(e)
  \/ \E r \in Entries : OpenDetail(r) \/ ShowEvent(r)

ResultSpec == ResultInit /\ [][ResultNext]_resultVars

-----------------------------------------------------------------------------
(* Properties.                                                             *)

(* A page at rest shows the list of the exam that is chosen and the detail *)
(* of the row that was asked for, unless the last requests failed or were  *)
(* answered out of order; a drawer closed and opened meanwhile, a second   *)
(* choice, a language switch do not matter.                                *)
AtRestShowsTheChosen ==
  /\ (listing = <<>> /\ ~disorder.list /\ desk.exam # NoSitting) => desk.shown = desk.exam
  /\ (reading = <<>> /\ ~disorder.detail /\ desk.open) => desk.detail = desk.asked
=============================================================================
