------------------------------ MODULE ContentLists ------------------------------
(***************************************************************************)
(* The lists of the question bank and of the papers                        *)
(* (apps/admin/src/pages/Content/Library/Questions/index.tsx,              *)
(* Content/Papers/index.tsx), open at several desks, and the editors that  *)
(* save a question or a paper meanwhile, over the handlers of              *)
(* internal/library.  A list acts on rows it read long ago; a batch        *)
(* handler takes its rows one by one, and reads and checks each before it  *)
(* writes it.                                                              *)
(***************************************************************************)
EXTENDS Naturals, FiniteSets

CONSTANTS
  Desks,      \* open lists and editors
  BankItems,  \* questions of the bank
  BankPapers, \* papers
  MaxAsked    \* bound: requests the administrators make

VARIABLES
  bank,    \* [BankItems -> row of the question and whether it has its test cases]
  shelf,   \* [BankPapers -> row of the paper and the questions of its outline]
  desk,    \* the open pages and the request each waits for
  overlap, \* two requests were once between their reads and their writes
  asked    \* how many requests were made, for the bound

listVars == <<bank, shelf, desk, overlap, asked>>

(* Rows of the two tables are told apart, and each from none.              *)
ASSUME ListsAssumption ==
  MaxAsked \in Nat /\ BankItems \cap BankPapers = {} /\ "none" \notin BankItems \cup BankPapers

Publicity == {"none", "DRAFT", "PUBLISHED"}   \* "none" is a row that is deleted
Kinds     == {"questions", "papers"}
Demands  == {"none", "load", "publish", "unpublish", "delete", "deletePapers", "outline", "publishPaper",
              "edit"}

Quiet == [op |-> "none", ids |-> {}, left |-> {}, item |-> "none", ok |-> {}, bad |-> {}, with |-> {}]

(* copy and pcopy are the rows the page shows, picked the rows it has      *)
(* selected, req the request it waits for: with ids, of which left are     *)
(* still to do and item is between reads and writes, and ok and bad are    *)
(* counted so far, which is what the page reports in the end.              *)
ListsTypeOK ==
  /\ bank \in [BankItems -> [status : Publicity, cases : BOOLEAN]]
  /\ shelf \in [BankPapers -> [status : Publicity, items : SUBSET BankItems]]
  /\ overlap \in BOOLEAN /\ asked \in 0..MaxAsked
  /\ \A d \in Desks :
       /\ desk[d].kind \in Kinds /\ desk[d].picked \subseteq BankItems \cup BankPapers
       /\ desk[d].copy \in [BankItems -> Publicity] /\ desk[d].pcopy \in [BankPapers -> Publicity]
       /\ desk[d].req.op \in Demands
       /\ desk[d].req.ids = desk[d].req.left \cup desk[d].req.ok \cup desk[d].req.bad
                              \cup ({desk[d].req.item} \ {"none"})

StatusOf(rows) == [x \in DOMAIN rows |-> rows[x].status]

ListsInit ==
  /\ bank \in [BankItems -> {[status |-> "PUBLISHED", cases |-> TRUE], [status |-> "DRAFT", cases |-> TRUE]}]
  /\ \E items \in SUBSET {q \in BankItems : bank[q].status = "PUBLISHED"} :
       shelf = [p \in BankPapers |-> [status |-> "DRAFT", items |-> items]]
  /\ overlap = FALSE /\ asked = 0
  /\ \E k \in [Desks -> Kinds] :
       desk = [d \in Desks |->
         [kind |-> k[d], copy |-> StatusOf(bank), pcopy |-> StatusOf(shelf), picked |-> {}, req |-> Quiet]]

-----------------------------------------------------------------------------
(* The pages.                                                              *)

Rests(d) == desk[d].req.op = "none"

ShownRows(d) ==
  IF desk[d].kind = "questions" THEN {q \in BankItems : desk[d].copy[q] # "none"}
                                ELSE {p \in BankPapers : desk[d].pcopy[p] # "none"}

Demand(d, op, ids, with) ==
  /\ desk' = [desk EXCEPT ![d].req = [Quiet EXCEPT !.op = op, !.ids = ids, !.left = ids, !.with = with]]
  /\ asked < MaxAsked /\ asked' = asked + 1
  /\ UNCHANGED <<bank, shelf, overlap>>

(* rowSelection: what is selected stays so while the list loads again.     *)
(* Nothing is selected that the bound leaves no request for.               *)
Pick(d, x) ==
  /\ Rests(d) /\ x \in ShownRows(d) /\ asked < MaxAsked
  /\ desk' = [desk EXCEPT ![d].picked = IF x \in @ THEN @ \ {x} ELSE @ \cup {x}]
  /\ UNCHANGED <<bank, shelf, overlap, asked>>

(* confirmToggleStatus: the next status is that of the copy turned round.  *)
ToggleQuestion(d, q) ==
  /\ Rests(d) /\ desk[d].kind = "questions" /\ q \in ShownRows(d)
  /\ Demand(d, IF desk[d].copy[q] = "DRAFT" THEN "publish" ELSE "unpublish", {q}, {})

(* confirmDelete of the one list and of the other.                         *)
DeleteQuestionRow(d, q) ==
  /\ Rests(d) /\ desk[d].kind = "questions" /\ q \in ShownRows(d)
  /\ Demand(d, "delete", {q}, {})

DeletePaperRow(d, p) ==
  /\ Rests(d) /\ desk[d].kind = "papers" /\ p \in ShownRows(d)
  /\ Demand(d, "deletePapers", {p}, {})

(* runBatchQuestionStatus, runBatchDeleteQuestions, runBatchDeletePapers   *)
(* on everything that is selected.                                         *)
BatchStatus(d, op) ==
  /\ Rests(d) /\ desk[d].kind = "questions" /\ desk[d].picked # {} /\ op \in {"publish", "unpublish"}
  /\ Demand(d, op, desk[d].picked, {})

BatchDeleteQuestions(d) ==
  /\ Rests(d) /\ desk[d].kind = "questions" /\ desk[d].picked # {}
  /\ Demand(d, "delete", desk[d].picked, {})

BatchDeletePapers(d) ==
  /\ Rests(d) /\ desk[d].kind = "papers" /\ desk[d].picked # {}
  /\ Demand(d, "deletePapers", desk[d].picked, {})

(* The table loads on its own and by its button.                           *)
ReloadTable(d) == Rests(d) /\ Demand(d, "load", {}, {})

(* The editors, which are open beside the lists (QuestionEditor and        *)
(* PaperBuilder): a question saved as a draft without test cases, an       *)
(* outline of questions that were published when it was picked, a paper    *)
(* published.                                                              *)
EditQuestion(d, q) ==
  Rests(d) /\ desk[d].kind = "questions" /\ desk[d].copy[q] = "DRAFT" /\ Demand(d, "edit", {q}, {})

EditOutline(d, p, items) ==
  /\ Rests(d) /\ desk[d].kind = "papers" /\ p \in ShownRows(d)
  /\ \A q \in items : desk[d].copy[q] = "PUBLISHED"
  /\ Demand(d, "outline", {p}, items)

PublishPaper(d, p) ==
  /\ Rests(d) /\ desk[d].kind = "papers" /\ p \in ShownRows(d)
  /\ Demand(d, "publishPaper", {p}, {})

-----------------------------------------------------------------------------
(* The server: the reads and checks of a handler, then its writes.         *)

Holds(p, q)    == shelf[p].status # "none" /\ q \in shelf[p].items
Held(q)        == \E p \in BankPapers : Holds(p, q)
HeldPublic(q)  == \E p \in BankPapers : Holds(p, q) /\ shelf[p].status = "PUBLISHED"

(* PatchQuestionStatus: a question is published with its test cases only,  *)
(* and unpublished only while no published paper counts on it              *)
(* (validateQuestionStatusTransition).                                     *)
PatchAllowed(op, q) ==
  /\ bank[q].status # "none"
  /\ op = "publish" => bank[q].cases
  /\ op = "unpublish" /\ bank[q].status = "PUBLISHED" => ~HeldPublic(q)

DeleteAllowed_Drafts(q) == bank[q].status # "none" /\ ~HeldPublic(q)

(* DeleteQuestion: not while a paper counts on it.                         *)
DeleteAllowed(q) == bank[q].status # "none" /\ ~Held(q)

(* UpdateQuestion, here to a draft without cases.                          *)
UpdateAllowed(q) == PatchAllowed("unpublish", q)

(* SavePaperOutline and UpdatePaper with validatePaperReadyForPublish.     *)
OutlineAllowed(p, items) ==
  shelf[p].status # "none" /\ \A q \in items : bank[q].status = "PUBLISHED"

PublishAllowed(p) ==
  /\ shelf[p].status # "none" /\ shelf[p].items # {}
  /\ \A q \in shelf[p].items : bank[q].status = "PUBLISHED"

Allowed(op, x, with) ==
  \/ op \in {"publish", "unpublish"} /\ PatchAllowed(op, x)
  \/ op = "delete" /\ DeleteAllowed(x)
  \/ op = "edit" /\ UpdateAllowed(x)
  \/ op = "deletePapers" /\ shelf[x].status # "none"
  \/ op = "outline" /\ OutlineAllowed(x, with)
  \/ op = "publishPaper" /\ PublishAllowed(x)

(* Some request has read and not written yet.                              *)
Between(d) == desk[d].req.item # "none"

(* BatchPatchQuestionStatus, BatchDeleteQuestions, BatchDeletePapers take  *)
(* the next of the ids and record what becomes of it; a request for one    *)
(* row is the batch of it alone.                                           *)
TakeItem(d, x) ==
  /\ x \in desk[d].req.left /\ ~Between(d) /\ Allowed(desk[d].req.op, x, desk[d].req.with)
  /\ desk' = [desk EXCEPT ![d].req.left = @ \ {x}, ![d].req.item = x]
  /\ overlap' = (overlap \/ \E e \in Desks \ {d} : Between(e))
  /\ UNCHANGED <<bank, shelf, asked>>

RefuseItem_Unrecorded(d, x) ==
  /\ x \in desk[d].req.left /\ ~Between(d) /\ ~Allowed(desk[d].req.op, x, desk[d].req.with)
  /\ desk' = [desk EXCEPT ![d].req.left = @ \ {x}]
  /\ UNCHANGED <<bank, shelf, overlap, asked>>

RefuseItem(d, x) ==
  /\ x \in desk[d].req.left /\ ~Between(d) /\ ~Allowed(desk[d].req.op, x, desk[d].req.with)
  /\ desk' = [desk EXCEPT ![d].req.left = @ \ {x}, ![d].req.bad = @ \cup {x}]
  /\ UNCHANGED <<bank, shelf, overlap, asked>>

(* The writes, each of a row that was only checked before; a deleted row   *)
(* takes no update.                                                        *)
Restated(row, status) == IF row.status = "none" THEN row ELSE [row EXCEPT !.status = status]

WriteBank(op, x) ==
  bank' = [bank EXCEPT ![x] =
    CASE op = "publish"   -> Restated(@, "PUBLISHED")
      [] op = "unpublish" -> Restated(@, "DRAFT")
      [] op = "edit"      -> [Restated(@, "DRAFT") EXCEPT !.cases = FALSE]
      [] op = "delete"    -> [status |-> "none", cases |-> FALSE]
      [] OTHER -> @]

WriteShelf(op, x, with) ==
  shelf' = [shelf EXCEPT ![x] =
    CASE op = "outline"      -> [@ EXCEPT !.items = with]
      [] op = "publishPaper" -> Restated(@, "PUBLISHED")
      [] op = "deletePapers" -> [status |-> "none", items |-> {}]
      [] OTHER -> @]

WriteItem(d) ==
  LET r == desk[d].req IN
  /\ Between(d)
  /\ IF r.item \in BankItems THEN WriteBank(r.op, r.item) /\ UNCHANGED shelf
                             ELSE WriteShelf(r.op, r.item, r.with) /\ UNCHANGED bank
  /\ desk' = [desk EXCEPT ![d].req.item = "none", ![d].req.ok = @ \cup {r.item}]
  /\ UNCHANGED <<overlap, asked>>

(* A write that fails.  The outline and the test cases are taken back with *)
(* their transaction; DeletePaper has none, and what it deleted before it  *)
(* failed, the questions of the outline, stays deleted.                    *)
LeftByFailure(r) ==
  /\ bank' = bank
  /\ \/ shelf' = shelf
     \/ r.op = "deletePapers" /\ shelf' = [shelf EXCEPT ![r.item].items = {}]

FailItem_Counted(d) ==
  /\ Between(d) /\ LeftByFailure(desk[d].req)
  /\ desk' = [desk EXCEPT ![d].req.item = "none", ![d].req.ok = @ \cup {desk[d].req.item}]
  /\ UNCHANGED <<overlap, asked>>

FailItem(d) ==
  /\ Between(d) /\ LeftByFailure(desk[d].req)
  /\ desk' = [desk EXCEPT ![d].req.item = "none", ![d].req.bad = @ \cup {desk[d].req.item}]
  /\ UNCHANGED <<overlap, asked>>

-----------------------------------------------------------------------------
(* The answers, as the pages take them.                                    *)

Finished(d) == ~Rests(d) /\ desk[d].req.left = {} /\ ~Between(d)

(* request of the table: the page takes the rows of now, or none of them   *)
(* when the request failed.                                                *)
Loads(d) ==
  /\ Finished(d) /\ desk[d].req.op = "load"
  /\ desk' = [desk EXCEPT ![d].req = Quiet, ![d].copy = StatusOf(bank), ![d].pcopy = StatusOf(shelf)]
  /\ UNCHANGED <<bank, shelf, overlap, asked>>

LoadFails(d) ==
  /\ Finished(d) /\ desk[d].req.op = "load"
  /\ desk' = [desk EXCEPT ![d].req = Quiet, ![d].copy = [q \in BankItems |-> "none"],
                          ![d].pcopy = [p \in BankPapers |-> "none"]]
  /\ UNCHANGED <<bank, shelf, overlap, asked>>

(* showBatchResult and reloadAndClearSelection: the report is shown, the   *)
(* selection cleared, the table loads again.                               *)
Reports(d) ==
  /\ Finished(d) /\ desk[d].req.op # "load"
  /\ desk' = [desk EXCEPT ![d].picked = {}, ![d].req = [Quiet EXCEPT !.op = "load"]]
  /\ UNCHANGED <<bank, shelf, overlap, asked>>

(* The request does not come back: an error is told, and the page stays as *)
(* it is, though the server may have gone through all of it.               *)
AnswerLost(d) ==
  /\ Finished(d) /\ desk[d].req.op # "load"
  /\ desk' = [desk EXCEPT ![d].req = Quiet]
  /\ UNCHANGED <<bank, shelf, overlap, asked>>

DeskActs(d) ==
  \/ \E x \in BankItems \cup BankPapers : Pick(d, x)
  \/ \E q \in BankItems : ToggleQuestion(d, q) \/ DeleteQuestionRow(d, q) \/ EditQuestion(d, q)
  \/ \E p \in BankPapers : DeletePaperRow(d, p) \/ PublishPaper(d, p)
  \/ \E p \in BankPapers, items \in SUBSET BankItems : EditOutline(d, p, items)
  \/ \E op \in {"publish", "unpublish"} : BatchStatus(d, op)
  \/ BatchDeleteQuestions(d) \/ BatchDeletePapers(d) \/ ReloadTable(d)

DeskGoesOn(d) ==
  \/ \E x \in BankItems \cup BankPapers : TakeItem(d, x) \/ RefuseItem(d, x)
  \/ WriteItem(d) \/ FailItem(d) \/ Loads(d) \/ LoadFails(d) \/ Reports(d) \/ AnswerLost(d)

ListsNext == \E d \in Desks : DeskActs(d) \/ DeskGoesOn(d)

ListsSpec == ListsInit /\ [][ListsNext]_listVars

-----------------------------------------------------------------------------
(* Properties.                                                             *)

(* While requests do not overlap, the checks before the writes suffice:    *)
(* whatever the lists have selected and however old their rows are, a      *)
(* published paper has published questions only, no paper has a question   *)
(* that was deleted, and a published question has its test cases.          *)
PaperSound(p) ==
  \A q \in shelf[p].items :
    bank[q].status # "none" /\ (shelf[p].status = "PUBLISHED" => bank[q].status = "PUBLISHED")

SerialContentSound ==
  ~overlap => /\ \A p \in BankPapers : PaperSound(p)
              /\ \A q \in BankItems : bank[q].status = "PUBLISHED" => bank[q].cases

(* What a report tells of a deletion is so and stays so, and nothing that  *)
(* was selected is missing from a report.                                  *)
ReportsHold ==
  \A d \in Desks :
    LET r == desk[d].req IN
    Finished(d) =>
    /\ r.ok \cap r.bad = {} /\ r.ok \cup r.bad = r.ids
    /\ r.op = "delete" => \A q \in r.ok : bank[q].status = "none"
    /\ r.op = "deletePapers" => \A p \in r.ok : shelf[p].status = "none"

(* The plan of the content says that a published question a published      *)
(* paper uses cannot be unpublished.                                       *)
PublishedPaperKeepsQuestions ==
  \A p \in BankPapers :
    shelf[p].status = "PUBLISHED" => \A q \in shelf[p].items : bank[q].status # "DRAFT"
=============================================================================
