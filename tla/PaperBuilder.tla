----------------------------- MODULE PaperBuilder -----------------------------
(***************************************************************************)
(* The paper page of the administration                                    *)
(* (apps/admin/src/pages/Content/Papers/Detail): sections of scored        *)
(* questions, edited on a copy and saved by a chain of requests - the      *)
(* paper itself, then its outline, then, when it is to be published, the   *)
(* paper again - any of which the server may refuse or the network lose,   *)
(* while other administrators withdraw the questions.  The server checks   *)
(* before it writes, and so does the withdrawal of a question.             *)
(***************************************************************************)
EXTENDS Naturals, FiniteSets, SequencesExt

CONSTANTS
  Bank,         \* the questions of the library
  MaxSections,  \* bound on the sections of the paper
  MaxTitles,    \* bound on the titles ever typed
  MaxEdits,     \* bound on the edits made
  MaxWithdrawn, \* bound on the questions withdrawn or being withdrawn
  MaxFailures   \* bound on the requests the network loses

VARIABLES
  creating,  \* the route ends in "new"
  store,     \* the stored paper and its outline
  released,  \* the questions that are PUBLISHED
  withdrawing, \* those whose withdrawal by others is checked and not yet written
  crossed,   \* history: and those checked for the paper and for withdrawal at once
  copy,      \* the page's copy of the paper
  fields,    \* the form: title and status
  sections, original,
  active,    \* key of the section the picker is for
  picker,    \* the picker: open or not, and the questions it was loaded with
  pdirty, psaving, ploading,
  step,      \* the request on its way, and its answer
  job,       \* what the save in progress has set out to store
  edits, failures,  \* edits made and requests lost so far
  torn,      \* history: a save or a load was not carried through
  hasty      \* history: the page was edited while it was saving

paperVars == <<creating, store, released, withdrawing, crossed, copy, fields, sections, original, active,
               picker, pdirty, psaving, ploading, step, job, edits, failures, torn, hasty>>

ASSUME PaperAssumption ==
  /\ Bank # {} /\ IsFiniteSet(Bank) /\ MaxSections \in Nat \ {0} /\ MaxTitles \in Nat \ {0}
  /\ MaxEdits \in Nat /\ MaxWithdrawn \in Nat /\ MaxFailures \in Nat

Statuses == {"DRAFT", "PUBLISHED"}
Papers   == [live : BOOLEAN, title : 0..MaxTitles, status : Statuses]
Steps    == {"none", "load", "paper", "outline", "publish"}
Outlined == [q : Bank, scored : BOOLEAN]              \* PaperQuestion, as stored
Shown    == [q : Bank, scored : BOOLEAN, pub : BOOLEAN] \* and as shown, with its status

NoJob    == [title |-> 0, status |-> "DRAFT", outline |-> <<>>, defer |-> FALSE]
NoPaper  == [live |-> FALSE, title |-> 0, status |-> "DRAFT"]
NoStep   == [name |-> "none", answer |-> "none"]
Ask(name) == [name |-> name, answer |-> "none"]

PaperTypeOK ==
  /\ {creating, pdirty, psaving, ploading, torn, hasty, picker.open} \subseteq BOOLEAN
  /\ {store.paper, copy} \subseteq Papers /\ store.outline \in Seq(Seq(Outlined))
  /\ fields.title \in 0..MaxTitles /\ fields.status \in Statuses
  /\ \A s \in Range(sections) \cup Range(original) : s.key \in Nat /\ s.qs \in Seq(Shown)
  /\ active \in Nat /\ picker.found \subseteq Bank
  /\ released \subseteq Bank /\ withdrawing \subseteq released /\ crossed \subseteq Bank
  /\ step.name \in Steps /\ step.answer \in {"none", "checked", "done", "failed"}
  /\ edits \in 0..MaxEdits /\ failures \in 0..MaxFailures

-----------------------------------------------------------------------------
(* Outlines and sections.                                                  *)

Items(outline)  == UNION {Range(outline[i]) : i \in DOMAIN outline}
Picked(secs)    == UNION {{item.q : item \in Range(s.qs)} : s \in Range(secs)}
OutlineOf(secs) ==
  [i \in DOMAIN secs |-> [j \in DOMAIN secs[i].qs |->
     [q |-> secs[i].qs[j].q, scored |-> secs[i].qs[j].scored]]]

(* createDefaultSection                                                    *)
DefaultSections == <<[key |-> 1, qs |-> <<>>]>>

(* normalizeSections of an outline just read.                              *)
SectionsOf(outline) ==
  IF outline = <<>> THEN DefaultSections
  ELSE [i \in DOMAIN outline |->
          [key |-> i, qs |-> [j \in DOMAIN outline[i] |->
             [q |-> outline[i][j].q, scored |-> outline[i][j].scored,
              pub |-> outline[i][j].q \in released]]]]

(* buildPaperPreviewSummary                                                *)
CanPublish(secs) ==
  LET items == UNION {Range(s.qs) : s \in Range(secs)} IN
  items # {} /\ \A item \in items : item.scored /\ item.pub

(* validatePaperReadyForPublish                                            *)
ReadyToPublish(outline) ==
  Items(outline) # {} /\ \A item \in Items(outline) : item.scored /\ item.q \in released

-----------------------------------------------------------------------------
PaperInit ==
  /\ released = Bank /\ withdrawing = {} /\ crossed = {}
  /\ \/ creating = TRUE /\ store = [paper |-> NoPaper, outline |-> <<>>]
     \/ /\ creating = FALSE
        /\ \E s \in Statuses, qs \in {<<>>} \cup {<<b>> : b \in Bank} :
             /\ store = [paper |-> [live |-> TRUE, title |-> 1, status |-> s],
                         outline |-> <<[j \in DOMAIN qs |-> [q |-> qs[j], scored |-> TRUE]]>>]
             /\ s = "PUBLISHED" => qs # <<>>
  /\ copy = NoPaper /\ fields = [title |-> 0, status |-> "DRAFT"]
  /\ sections = DefaultSections
  /\ original = (IF creating THEN DefaultSections ELSE <<>>) /\ active = (IF creating THEN 1 ELSE 0)
  /\ picker = [open |-> FALSE, found |-> {}]
  /\ pdirty = FALSE /\ psaving = FALSE /\ ploading = ~creating
  /\ step = IF creating THEN NoStep ELSE Ask("load")
  /\ job = NoJob
  /\ edits = 0 /\ failures = 0 /\ torn = FALSE /\ hasty = FALSE

Server  == <<store, released, withdrawing, crossed, failures>>
Working == <<creating, copy, original, psaving, ploading, step, job, torn, Server>>

(* Any change of a field or of the structure; the open picker covers the   *)
(* page.                                                                   *)
Touch ==
  /\ ~ploading /\ edits < MaxEdits /\ edits' = edits + 1
  /\ pdirty' = TRUE /\ hasty' = (hasty \/ psaving)

SetFields(f) ==
  /\ ~picker.open /\ f # fields /\ Touch /\ fields' = f
  /\ UNCHANGED <<sections, active, picker, Working>>

(* updateSections                                                          *)
UpdateSections(secs) ==
  /\ Touch /\ sections' = secs
  /\ UNCHANGED <<fields, Working>>

Restructure(secs) == ~picker.open /\ UpdateSections(secs) /\ UNCHANGED picker

FreshKey == CHOOSE k \in 1..(2 * MaxSections + 1) : \A s \in Range(sections) : s.key # k

AddSection ==
  /\ Len(sections) < MaxSections
  /\ Restructure(Append(sections, [key |-> FreshKey, qs |-> <<>>]))
  /\ active' = FreshKey

(* removeSection: the paper always keeps a section.  The active section    *)
(* falls back to the first of the others.                                  *)
RemoveSection(i) ==
  LET others == RemoveAt(sections, i) IN
  /\ Restructure(IF others = <<>> THEN <<[key |-> FreshKey, qs |-> <<>>]>> ELSE others)
  /\ active' = IF active # sections[i].key THEN active
               ELSE IF others = <<>> THEN 0 ELSE others[1].key

Swapped(s, i) == [s EXCEPT ![i] = s[i + 1], ![i + 1] = s[i]]

(* moveSection; the buttons at both ends of the list are disabled.         *)
MoveSection(i) ==
  /\ i + 1 \in DOMAIN sections
  /\ Restructure(Swapped(sections, i))
  /\ UNCHANGED active

(* handleStructureDragEnd, moveQuestionWithinSection: a question is        *)
(* dropped on another of its own section.                                  *)
DragQuestion(i, from, to) ==
  /\ from # to
  /\ Restructure([sections EXCEPT ![i].qs = InsertAt(RemoveAt(@, from), to, @[from])])
  /\ UNCHANGED active

RemoveQuestion(i, j) ==
  /\ Restructure([sections EXCEPT ![i].qs = RemoveAt(@, j)])
  /\ UNCHANGED active

(* updateQuestion, from the score's input: an emptied one is a zero.       *)
EditScore(i, j) ==
  /\ Restructure([sections EXCEPT ![i].qs[j].scored = ~@])
  /\ UNCHANGED active

(* openPicker, and the query of its table: published questions that the    *)
(* paper does not have yet.                                                *)
OpenPicker(i) ==
  /\ ~ploading /\ ~picker.open
  /\ active' = sections[i].key
  /\ picker' = [open |-> TRUE, found |-> released \ Picked(sections)]
  /\ UNCHANGED <<edits, fields, sections, pdirty, hasty, Working>>

AddPickedQuestions_Unfiltered(questions) ==
  LET added == SetToSeq(questions) IN
  /\ picker.open /\ active # 0 /\ questions # {}
  /\ picker' = [open |-> FALSE, found |-> {}]
  /\ UpdateSections([i \in DOMAIN sections |->
       IF sections[i].key # active THEN sections[i]
       ELSE [sections[i] EXCEPT !.qs = @ \o
               [k \in DOMAIN added |-> [q |-> added[k], scored |-> TRUE, pub |-> TRUE]]]])
  /\ UNCHANGED active

(* addPickedQuestions: those the paper has by now are left out, and the    *)
(* section is the one that is active by now.                               *)
AddPickedQuestions(questions) ==
  LET added == SetToSeq(questions \ Picked(sections)) IN
  /\ picker.open /\ active # 0 /\ questions # {}
  /\ picker' = [open |-> FALSE, found |-> {}]
  /\ UpdateSections([i \in DOMAIN sections |->
       IF sections[i].key # active THEN sections[i]
       ELSE [sections[i] EXCEPT !.qs = @ \o
               [k \in DOMAIN added |-> [q |-> added[k], scored |-> TRUE, pub |-> TRUE]]]])
  /\ UNCHANGED active

ClosePicker ==
  /\ picker.open /\ picker' = [open |-> FALSE, found |-> {}]
  /\ UNCHANGED <<edits, fields, sections, active, pdirty, hasty, Working>>

CancelPaperEdit_FieldsOnly ==
  /\ ~ploading /\ pdirty /\ ~picker.open
  /\ fields' = IF creating THEN [title |-> 0, status |-> "DRAFT"]
               ELSE IF copy.live THEN [title |-> copy.title, status |-> copy.status] ELSE fields
  /\ pdirty' = FALSE /\ hasty' = (hasty \/ psaving)
  /\ UNCHANGED <<edits, sections, original, active, creating, copy, picker, psaving, ploading, step,
                 job, torn, Server>>

CancelPaperEdit ==
  /\ ~ploading /\ pdirty /\ ~picker.open
  /\ fields' = IF creating THEN [title |-> 0, status |-> "DRAFT"]
               ELSE IF copy.live THEN [title |-> copy.title, status |-> copy.status] ELSE fields
  /\ sections' = IF creating THEN DefaultSections ELSE original
  /\ original' = sections' /\ active' = IF sections' = <<>> THEN 0 ELSE sections'[1].key
  /\ pdirty' = FALSE /\ hasty' = (hasty \/ psaving)
  /\ UNCHANGED <<edits, creating, copy, picker, psaving, ploading, step, job, torn, Server>>

-----------------------------------------------------------------------------
(* save, up to its first request.                                          *)
SavePaper ==
  /\ ~ploading /\ pdirty /\ ~psaving /\ ~picker.open
  /\ fields.title # 0
  /\ fields.status = "PUBLISHED" => CanPublish(sections)
  /\ psaving' = TRUE /\ step' = Ask("paper") /\ hasty' = FALSE
  /\ job' = [title |-> fields.title, status |-> fields.status, outline |-> OutlineOf(sections),
             defer |-> fields.status = "PUBLISHED" /\ (creating \/ copy.status # "PUBLISHED")]
  /\ UNCHANGED <<edits, creating, copy, fields, sections, original, active, picker, pdirty, ploading,
                 torn, Server>>

FirstStatus == IF job.defer THEN "DRAFT" ELSE job.status

(* The requests that the server checks before it writes: UpdatePaper to    *)
(* PUBLISHED, and SavePaperOutline.                                        *)
Checked ==
  \/ step.name \in {"outline", "publish"}
  \/ step.name = "paper" /\ ~creating /\ FirstStatus = "PUBLISHED"

Allowed_StatusUnread ==
  \/ step.name = "load" /\ store.paper.live
  \/ step.name = "paper" /\ creating /\ FirstStatus # "PUBLISHED"
  \/ step.name = "paper" /\ ~creating /\ (FirstStatus = "PUBLISHED" => ReadyToPublish(store.outline))
  \/ step.name = "outline" /\ \A item \in Items(job.outline) : item.scored
  \/ step.name = "publish" /\ ReadyToPublish(store.outline)

(* What GetPaperOutline, CreatePaper, UpdatePaper and SavePaperOutline     *)
(* find when they look.                                                    *)
Allowed ==
  \/ step.name = "load" /\ store.paper.live
  \/ step.name = "paper" /\ creating /\ FirstStatus # "PUBLISHED"
  \/ step.name = "paper" /\ ~creating /\ (FirstStatus = "PUBLISHED" => ReadyToPublish(store.outline))
  \/ step.name = "outline" /\ \A item \in Items(job.outline) : item.scored /\ item.q \in released
  \/ step.name = "publish" /\ ReadyToPublish(store.outline)

(* The outline a request is about, which it stores or finds stored, and    *)
(* its questions.                                                          *)
About     == IF step.name = "outline" THEN job.outline ELSE store.outline
Concerned == {item.q : item \in Items(About)}

Effect ==
  store' =
    CASE step.name = "paper" ->
              [paper |-> [live |-> TRUE, title |-> job.title, status |-> FirstStatus],
               outline |-> IF creating THEN <<>> ELSE store.outline]
         [] step.name = "outline" -> [store EXCEPT !.outline = job.outline]
         [] step.name = "publish" -> [store EXCEPT !.paper.status = "PUBLISHED"]
         [] OTHER -> store

AtServer ==
  /\ step.name # "none" /\ step.answer \in {"none", "checked"}
  /\ UNCHANGED <<edits, creating, released, withdrawing, copy, fields, sections, original, active,
                 picker, pdirty, psaving, ploading, job, torn, hasty>>

MayWrite == IF Checked THEN step.answer = "checked" ELSE Allowed

ServerChecks ==
  /\ AtServer /\ Checked /\ step.answer = "none" /\ Allowed
  /\ step' = [step EXCEPT !.answer = "checked"]
  /\ crossed' = crossed \cup (withdrawing \cap Concerned)
  /\ UNCHANGED <<store, failures>>

ServerRefuses ==
  /\ AtServer /\ step.answer = "none" /\ ~Allowed
  /\ step' = [step EXCEPT !.answer = "failed"]
  /\ UNCHANGED <<store, crossed, failures>>

ServerWrites ==
  /\ AtServer /\ MayWrite /\ Effect
  /\ step' = [step EXCEPT !.answer = "done"]
  /\ UNCHANGED <<crossed, failures>>

(* The request is lost, or its answer after the write.                     *)
ServerFails ==
  /\ AtServer /\ failures < MaxFailures /\ failures' = failures + 1
  /\ (MayWrite /\ Effect) \/ UNCHANGED store
  /\ step' = [step EXCEPT !.answer = "failed"]
  /\ UNCHANGED crossed

Adopt(outline) == sections' = SectionsOf(outline) /\ original' = sections'

(* loadPaper after its await.                                              *)
LoadReturns ==
  /\ step.name = "load" /\ step.answer \in {"done", "failed"}
  /\ step' = NoStep /\ ploading' = FALSE
  /\ IF step.answer = "done"
     THEN /\ copy' = store.paper /\ Adopt(store.outline) /\ active' = sections'[1].key
          /\ fields' = [title |-> store.paper.title, status |-> store.paper.status]
          /\ pdirty' = FALSE /\ torn' = FALSE
     ELSE torn' = TRUE /\ UNCHANGED <<copy, sections, original, active, fields, pdirty>>
  /\ UNCHANGED <<edits, creating, picker, psaving, job, hasty, Server>>

(* save, once the paper is stored: its outline is next.                    *)
PaperReturns ==
  /\ step.name = "paper" /\ step.answer = "done"
  /\ step' = Ask("outline")
  /\ UNCHANGED <<edits, creating, copy, fields, sections, original, active, picker, pdirty, psaving,
                 ploading, job, torn, hasty, Server>>

(* The end of a save that went well.  A new paper's page becomes the page  *)
(* of the paper, and loads it.                                             *)
Saved(status) ==
  /\ copy' = [store.paper EXCEPT !.status = status]
  /\ pdirty' = FALSE /\ psaving' = FALSE /\ torn' = FALSE /\ job' = NoJob
  /\ creating' = FALSE /\ ploading' = creating
  /\ step' = IF creating THEN Ask("load") ELSE NoStep

(* saveOutline after its await, and what save does next.                   *)
OutlineReturns ==
  /\ step.name = "outline" /\ step.answer = "done"
  /\ Adopt(store.outline) /\ active' = IF store.outline = <<>> THEN 0 ELSE sections'[1].key
  /\ IF job.defer
     THEN /\ step' = Ask("publish")
          /\ UNCHANGED <<creating, copy, pdirty, psaving, ploading, torn, job>>
     ELSE Saved(store.paper.status)
  /\ UNCHANGED <<edits, fields, picker, hasty, Server>>

PublishReturns ==
  /\ step.name = "publish" /\ step.answer = "done"
  /\ Saved("PUBLISHED")
  /\ UNCHANGED <<edits, fields, sections, original, active, picker, hasty, Server>>

SaveFails_Stuck ==
  /\ step.name \in {"paper", "outline", "publish"} /\ step.answer = "failed"
  /\ step' = NoStep /\ torn' = TRUE /\ job' = NoJob
  /\ UNCHANGED <<edits, creating, copy, fields, sections, original, active, picker, pdirty, psaving,
                 ploading, hasty, Server>>

(* The catch of save: what was stored so far stays stored.                 *)
SaveFails ==
  /\ step.name \in {"paper", "outline", "publish"} /\ step.answer = "failed"
  /\ step' = NoStep /\ psaving' = FALSE /\ torn' = TRUE
  /\ job' = NoJob
  /\ UNCHANGED <<edits, creating, copy, fields, sections, original, active, picker, pdirty, ploading,
                 hasty, Server>>

(* PatchQuestionStatus by others: a question becomes a draft again, unless *)
(* a published paper is found to have it.  The row is written later, or    *)
(* never: the write may fail.                                              *)
WithdrawChecks(b) ==
  /\ b \in released \ withdrawing /\ Cardinality(withdrawing \cup (Bank \ released)) < MaxWithdrawn
  /\ store.paper.status = "PUBLISHED" => b \notin {item.q : item \in Items(store.outline)}
  /\ withdrawing' = withdrawing \cup {b}
  /\ crossed' = IF step.answer = "checked" /\ b \in Concerned THEN crossed \cup {b} ELSE crossed
  /\ UNCHANGED <<edits, creating, store, released, copy, fields, sections, original, active, picker,
                 pdirty, psaving, ploading, step, job, failures, torn, hasty>>

WithdrawWrites(b) ==
  /\ b \in withdrawing /\ withdrawing' = withdrawing \ {b}
  /\ released' = released \ {b}
  /\ UNCHANGED <<edits, creating, store, crossed, copy, fields, sections, original, active, picker,
                 pdirty, psaving, ploading, step, job, failures, torn, hasty>>

OthersWithdraw == \E b \in Bank : WithdrawChecks(b) \/ WithdrawWrites(b)

EditPaper ==
  \/ \E t \in 1..MaxTitles, s \in Statuses : SetFields([title |-> t, status |-> s])
  \/ AddSection \/ ClosePicker \/ CancelPaperEdit
  \/ \E i \in DOMAIN sections :
       \/ RemoveSection(i) \/ MoveSection(i) \/ OpenPicker(i)
       \/ \E j \in DOMAIN sections[i].qs :
            \/ RemoveQuestion(i, j) \/ EditScore(i, j)
            \/ \E k \in DOMAIN sections[i].qs : DragQuestion(i, j, k)
  \/ \E questions \in SUBSET picker.found : AddPickedQuestions(questions)

Serve == ServerChecks \/ ServerRefuses \/ ServerWrites \/ ServerFails

PaperGoesOn ==
  Serve \/ LoadReturns \/ PaperReturns \/ OutlineReturns \/ PublishReturns \/ SaveFails

PaperNext == EditPaper \/ SavePaper \/ PaperGoesOn \/ OthersWithdraw

(* Every request is answered in the end, if only by its failure.           *)
PaperFairness == WF_paperVars(PaperGoesOn)

PaperSpec == PaperInit /\ [][PaperNext]_paperVars /\ PaperFairness

-----------------------------------------------------------------------------
(* Properties.                                                             *)

(* No question is twice in the paper, in whatever section and however long *)
(* the picker was open while a save replaced the sections.                 *)
NoQuestionTwice ==
  \A i, k \in DOMAIN sections : \A j \in DOMAIN sections[i].qs, l \in DOMAIN sections[k].qs :
    sections[i].qs[j].q = sections[k].qs[l].q => i = k /\ j = l

(* A paper that is stored as published has a question, and every question  *)
(* of it has a score and is itself published, whichever request of a save  *)
(* fails and whatever others withdraw - but for a question whose           *)
(* withdrawal and a request about the paper were checked before either was *)
(* written.                                                                *)
PublishedIsReady ==
  store.paper.status = "PUBLISHED" =>
    /\ Items(store.outline) # {}
    /\ \A item \in Items(store.outline) : item.scored /\ item.q \in released \cup crossed

(* A page that offers neither to save nor to cancel shows what is stored,  *)
(* no section as an empty one, if it was left alone while it saved and its *)
(* requests got through.                                                   *)
CleanShowsStored ==
  ~pdirty /\ ~ploading /\ ~psaving /\ ~creating /\ ~torn /\ ~hasty =>
    /\ fields = [title |-> store.paper.title, status |-> store.paper.status]
    /\ OutlineOf(sections) = OutlineOf(SectionsOf(store.outline))
=============================================================================
