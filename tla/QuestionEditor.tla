---------------------------- MODULE QuestionEditor ----------------------------
(***************************************************************************)
(* The question page of the administration                                 *)
(* (apps/admin/src/pages/Content/Library/Questions/Detail.tsx): a form     *)
(* over a copy of one stored question, with a request for each of loading, *)
(* saving and deleting, any of which may be on its way while the           *)
(* administrator goes on typing, other administrators change the question, *)
(* and the network loses an answer.                                        *)
(***************************************************************************)
EXTENDS Naturals, FiniteSets, SequencesExt

CONSTANTS
  QTypes,    \* the question types offered
  MaxTexts,  \* bound on the versions of the text ever written
  MaxCases,  \* bound on the test cases of the form
  MaxLost    \* bound on the answers the network loses

VARIABLES
  qpage,    \* "new", "detail" or "list": the route
  row,      \* the stored question
  cited,    \* a published paper refers to it
  question, \* the page's copy
  form,     \* the fields
  openCase, \* the test case whose panel is open, 0 for none
  dirty, loading, saving,
  fetch,    \* GET:         [phase, ok, row]
  send,     \* POST or PUT: [phase, ok, row]
  del,      \* DELETE:      [phase, ok, row]
  texts,    \* versions of the text written so far
  lost,     \* answers lost so far
  posts,    \* history: questions this page created
  typed,    \* history: text typed while nothing was being saved, neither
            \* stored nor given up since; 0 if there is none
  stale     \* history: the last fetch failed

questionVars == <<qpage, row, cited, question, form, openCase, dirty, loading, saving,
                  fetch, send, del, texts, lost, posts, typed, stale>>

ASSUME QuestionAssumption ==
  /\ QTypes \subseteq {"SINGLE_CHOICE", "MULTIPLE_CHOICE", "TRUE_FALSE",
                       "FILL_BLANK", "SHORT_ANSWER", "PROGRAMMING"}
  /\ QTypes # {} /\ MaxTexts \in Nat \ {0} /\ MaxCases \in Nat \ {0} /\ MaxLost \in Nat

(* The title and the text are one value, 0 while one of them is blank.     *)
Rows  == [live : BOOLEAN, type : QTypes \cup {"NONE"}, text : 0..MaxTexts, cases : 0..MaxCases]
Calls == [phase : {"idle", "sent", "answered"}, ok : BOOLEAN, row : Rows]

Nothing == [live |-> FALSE, type |-> "NONE", text |-> 0, cases |-> 0]
Idle    == [phase |-> "idle", ok |-> FALSE, row |-> Nothing]
Sent(r) == [phase |-> "sent", ok |-> FALSE, row |-> r]
Answered(ok, r) == [phase |-> "answered", ok |-> ok, row |-> r]

QuestionTypeOK ==
  /\ qpage \in {"new", "detail", "list"} /\ row \in Rows /\ question \in Rows
  /\ form.type \in QTypes \cup {"NONE"} /\ form.text \in 0..MaxTexts
  /\ form.answered \in BOOLEAN
  /\ form.cases \in Seq(BOOLEAN) /\ Len(form.cases) <= MaxCases
  /\ openCase \in 0..MaxCases
  /\ {cited, dirty, loading, saving, stale} \subseteq BOOLEAN
  /\ {fetch, send, del} \subseteq Calls
  /\ texts \in 0..MaxTexts /\ lost \in 0..MaxLost /\ typed \in 0..MaxTexts
  /\ posts \in Nat

-----------------------------------------------------------------------------
(* The form.                                                               *)

(* initialValuesForType: a type starts with an empty text and an empty     *)
(* answer of its own shape, a programming question with its language given *)
(* and one sample case.                                                    *)
StartOf(type) ==
  [type |-> type, text |-> 0, answered |-> type = "PROGRAMMING",
   cases |-> IF type = "PROGRAMMING" THEN <<FALSE>> ELSE <<>>]

(* What setFieldsValue puts in the fields: the copy, an empty list for no  *)
(* test cases.                                                             *)
ShownOf(q) ==
  [type |-> q.type, text |-> q.text, answered |-> TRUE,
   cases |-> [i \in 1..q.cases |-> TRUE]]

(* The type of the fields offered: the form's while it is new.             *)
EffectiveType == IF qpage = "new" THEN form.type ELSE question.type

(* The rules of the sections validateFields goes through.                  *)
TextGiven   == form.text # 0
ChoiceGiven == EffectiveType \in {"SINGLE_CHOICE", "MULTIPLE_CHOICE"} => form.answered
JudgementGiven == EffectiveType = "TRUE_FALSE" => form.answered
BlanksGiven    == EffectiveType = "FILL_BLANK" => form.answered
ReferenceGiven == EffectiveType = "SHORT_ANSWER" => form.answered
LanguageGiven  == EffectiveType = "PROGRAMMING" => form.answered

(* The expected output is a field, and has its rule, only while the panel  *)
(* of its case is open.                                                    *)
CasesGiven ==
  EffectiveType = "PROGRAMMING" =>
    Len(form.cases) >= 1 /\ (openCase \in DOMAIN form.cases => form.cases[openCase])

FormValid ==
  /\ EffectiveType # "NONE" /\ TextGiven
  /\ ChoiceGiven /\ JudgementGiven /\ BlanksGiven /\ ReferenceGiven
  /\ LanguageGiven /\ CasesGiven

-----------------------------------------------------------------------------
QuestionInit ==
  /\ \/ /\ qpage = "new" /\ row = Nothing /\ loading = FALSE /\ fetch = Idle
        /\ \E t \in QTypes \cup {"NONE"} : form = StartOf(t)
     \/ /\ qpage = "detail" /\ loading = TRUE /\ fetch = Sent(Nothing)
        /\ \E t \in QTypes :
             row = [live |-> TRUE, type |-> t, text |-> 1,
                    cases |-> IF t = "PROGRAMMING" THEN 1 ELSE 0]
        /\ form = StartOf("NONE")
  /\ cited = FALSE /\ question = Nothing /\ openCase = 0
  /\ dirty = FALSE /\ saving = FALSE /\ send = Idle /\ del = Idle
  /\ texts = 1 /\ lost = 0 /\ posts = 0 /\ typed = 0 /\ stale = FALSE

Mounted == qpage # "list"
(* The page container hides its content while it loads, and shows "not     *)
(* found" without a copy.                                                  *)
Editable == Mounted /\ ~loading /\ (qpage = "new" \/ question.live)
Offered  == Editable /\ EffectiveType # "NONE"

Requests == <<fetch, send, del>>
Backend  == <<row, cited, posts, lost>>

(* handleValuesChange: whatever the fields lost or gained, they are dirty. *)
Changed(f) ==
  /\ form' = f /\ dirty' = TRUE
  /\ UNCHANGED <<qpage, question, loading, saving, stale, Requests, Backend>>

FillText ==
  /\ Offered /\ texts < MaxTexts
  /\ texts' = texts + 1
  /\ Changed([form EXCEPT !.text = texts'])
  /\ typed' = IF saving THEN typed ELSE texts'
  /\ UNCHANGED openCase

ToggleAnswer ==
  /\ Offered
  /\ Changed([form EXCEPT !.answered = ~@])
  /\ UNCHANGED <<openCase, texts, typed>>

(* The type is chosen while the question is new; the fields of the type    *)
(* chosen before are emptied, and what was typed in them is given up.      *)
ChangeType(t) ==
  /\ Editable /\ qpage = "new" /\ t # form.type
  /\ Changed(StartOf(t))
  /\ typed' = 0 /\ openCase' = 0
  /\ UNCHANGED texts

(* TestCasesEdit.                                                          *)
AddCase ==
  /\ Offered /\ EffectiveType = "PROGRAMMING" /\ Len(form.cases) < MaxCases
  /\ Changed([form EXCEPT !.cases = Append(@, FALSE)])
  /\ openCase' = Len(form.cases) + 1
  /\ UNCHANGED <<texts, typed>>

DeleteCase(i) ==
  /\ Offered /\ EffectiveType = "PROGRAMMING"
  /\ Changed([form EXCEPT !.cases = RemoveAt(@, i)])
  /\ openCase' = IF openCase = i THEN 0 ELSE openCase
  /\ UNCHANGED <<texts, typed>>

ToggleCase(i) ==
  /\ Offered /\ EffectiveType = "PROGRAMMING"
  /\ openCase' = IF openCase = i THEN 0 ELSE i
  /\ UNCHANGED <<qpage, question, form, dirty, loading, saving, stale, texts, typed,
                 Requests, Backend>>

FillCase ==
  /\ Offered /\ EffectiveType = "PROGRAMMING" /\ openCase \in DOMAIN form.cases
  /\ Changed([form EXCEPT !.cases[openCase] = ~@])
  /\ UNCHANGED <<openCase, texts, typed>>

(* cancelEdit                                                              *)
CancelEdit ==
  /\ Editable /\ dirty
  /\ form' = IF qpage = "new" THEN StartOf("NONE") ELSE ShownOf(question)
  /\ dirty' = FALSE /\ typed' = 0
  /\ openCase' = IF qpage = "new" THEN 0 ELSE openCase
  /\ UNCHANGED <<qpage, question, loading, saving, stale, texts, Requests, Backend>>

-----------------------------------------------------------------------------
(* The requests.                                                           *)

(* normalizeQuestionPayload and the fields deleted for the other types.    *)
Payload ==
  [live |-> TRUE, type |-> EffectiveType, text |-> form.text,
   cases |-> IF EffectiveType = "PROGRAMMING" THEN Len(form.cases) ELSE 0]

SaveButton == Editable /\ dirty /\ ~saving

(* saveQuestion up to its await: the validation and the payload.  Whether  *)
(* a closed case lacks its output the server sees.                         *)
SaveQuestion ==
  /\ SaveButton /\ FormValid
  /\ saving' = TRUE
  /\ send' = [Sent(Payload) EXCEPT !.ok = FALSE \notin {form.cases[i] : i \in DOMAIN form.cases}]
  /\ UNCHANGED <<qpage, question, form, openCase, dirty, loading, fetch, del, stale,
                 texts, typed, Backend>>

(* The server's side of it: CreateQuestion, or UpdateQuestion.  It refuses *)
(* to save a question that is gone, one with a case without output, and to *)
(* make a draft of one that a published paper refers to.                   *)
Accepted == send.ok /\ (qpage = "new" \/ row.live)

ServeSave ==
  /\ send.phase = "sent"
  /\ \/ /\ Accepted
        /\ row' = send.row
        /\ posts' = IF qpage = "new" THEN posts + 1 ELSE posts
        /\ typed' = IF typed <= send.row.text THEN 0 ELSE typed
        /\ \/ send' = Answered(TRUE, Nothing) /\ lost' = lost
           \/ lost < MaxLost /\ send' = Answered(FALSE, Nothing) /\ lost' = lost + 1
     \/ /\ ~Accepted \/ cited
        /\ send' = Answered(FALSE, Nothing)
        /\ UNCHANGED <<row, posts, typed, lost>>
  /\ UNCHANGED <<qpage, cited, question, form, openCase, dirty, loading, saving, fetch, del,
                 texts, stale>>

LoadFrom(page) ==
  /\ qpage' = page /\ loading' = TRUE /\ fetch' = Sent(Nothing) /\ openCase' = 0

SaveReturns_Clean ==
  /\ send.phase = "answered"
  /\ saving' = FALSE /\ send' = Idle /\ dirty' = FALSE
  /\ IF send.ok /\ Mounted THEN LoadFrom("detail") ELSE UNCHANGED <<qpage, loading, fetch, openCase>>
  /\ UNCHANGED <<question, form, del, texts, typed, stale, Backend>>

(* saveQuestion after its await.                                           *)
SaveReturns ==
  /\ send.phase = "answered"
  /\ saving' = FALSE /\ send' = Idle
  /\ \/ /\ send.ok /\ qpage = "new"
        /\ LoadFrom("detail") /\ UNCHANGED dirty
     \/ /\ send.ok /\ qpage = "detail"
        /\ LoadFrom("detail") /\ dirty' = FALSE
     \/ /\ ~send.ok \/ ~Mounted
        /\ UNCHANGED <<qpage, loading, fetch, openCase, dirty>>
  /\ UNCHANGED <<question, form, del, texts, typed, stale, Backend>>

ServeFetch ==
  /\ fetch.phase = "sent"
  /\ \E ok \in {row.live, FALSE} : fetch' = Answered(ok, IF ok THEN row ELSE Nothing)
  /\ UNCHANGED <<qpage, question, form, openCase, dirty, loading, saving, send, del,
                 texts, typed, stale, Backend>>

(* fetchQuestion after its await, and the effect of the new copy.          *)
FetchReturns ==
  /\ fetch.phase = "answered"
  /\ loading' = FALSE /\ fetch' = Idle /\ stale' = ~fetch.ok
  /\ IF fetch.ok
     THEN question' = fetch.row /\ form' = ShownOf(fetch.row) /\ dirty' = FALSE
     ELSE UNCHANGED <<question, form, dirty>>
  /\ UNCHANGED <<qpage, openCase, saving, send, del, texts, typed, Backend>>

(* deleteQuestion, offered whatever else is on its way.                    *)
DeleteQuestion ==
  /\ Editable /\ qpage = "detail" /\ del = Idle
  /\ del' = Sent(Nothing)
  /\ UNCHANGED <<qpage, question, form, openCase, dirty, loading, saving, fetch, send,
                 texts, typed, stale, Backend>>

ServeDelete ==
  /\ del.phase = "sent"
  /\ del' = Answered(row.live /\ ~cited, Nothing)
  /\ row' = IF row.live /\ ~cited THEN [row EXCEPT !.live = FALSE] ELSE row
  /\ UNCHANGED <<qpage, cited, question, form, openCase, dirty, loading, saving, fetch, send,
                 texts, lost, posts, typed, stale>>

DeleteReturns ==
  /\ del.phase = "answered"
  /\ del' = Idle
  /\ qpage' = IF del.ok THEN "list" ELSE qpage
  /\ UNCHANGED <<question, form, openCase, dirty, loading, saving, fetch, send,
                 texts, typed, stale, Backend>>

(* Another administrator saves, cites or deletes the question.             *)
OthersAct ==
  /\ row.live
  /\ \/ /\ texts < MaxTexts /\ texts' = texts + 1
        /\ row' = [row EXCEPT !.text = texts'] /\ UNCHANGED cited
     \/ cited' = TRUE /\ UNCHANGED <<row, texts>>
     \/ ~cited /\ row' = [row EXCEPT !.live = FALSE] /\ UNCHANGED <<cited, texts>>
  /\ UNCHANGED <<qpage, question, form, openCase, dirty, loading, saving, Requests,
                 lost, posts, typed, stale>>

Administrator ==
  \/ FillText \/ ToggleAnswer \/ AddCase \/ FillCase \/ CancelEdit \/ SaveQuestion \/ DeleteQuestion
  \/ \E t \in QTypes : ChangeType(t)
  \/ \E i \in DOMAIN form.cases : DeleteCase(i) \/ ToggleCase(i)

SaveGoesOn   == ServeSave \/ SaveReturns
FetchGoesOn  == ServeFetch \/ FetchReturns
DeleteGoesOn == ServeDelete \/ DeleteReturns

QuestionNext == Administrator \/ SaveGoesOn \/ FetchGoesOn \/ DeleteGoesOn \/ OthersAct

(* Every request is answered in the end, if only by its failure.           *)
QuestionFairness == WF_questionVars(SaveGoesOn \/ FetchGoesOn)

QuestionSpec == QuestionInit /\ [][QuestionNext]_questionVars /\ QuestionFairness

-----------------------------------------------------------------------------
(* Properties.                                                             *)

(* What was typed while nothing was being saved stays in the form, marked  *)
(* as unsaved, until the server has it or the administrator gives it up:   *)
(* neither a refusal nor a lost answer nor a failed fetch drops it.        *)
TypedIsKept == typed # 0 /\ Mounted => dirty /\ form.text >= typed

(* A page that offers neither to save nor to cancel shows what it last     *)
(* fetched, unless that fetch failed.                                      *)
CleanShowsCopy ==
  Editable /\ qpage = "detail" /\ ~dirty /\ ~stale => form = ShownOf(question)

(* One new question is created once, however often saving is asked for,    *)
(* unless the network lost an answer.                                      *)
CreatedOnce == posts <= 1 + lost

QuestionIsKept == TypedIsKept /\ CleanShowsCopy /\ CreatedOnce
=============================================================================
