----------------------------- MODULE MCAdminPages ------------------------------
(***************************************************************************)
(* The pages of the console for TLC, one mounted at a time as the router   *)
(* mounts them: the question page, the paper page, the pages of results,   *)
(* and the tabs that sign in and out.  The state of what is not mounted    *)
(* stays at one initial state.                                             *)
(***************************************************************************)
EXTENDS QuestionEditor, PaperBuilder, ResultsDesk, AdminAuth

VARIABLE mounted

pageVars == <<mounted, questionVars, paperVars, resultVars, authVars>>

PagesInit ==
  /\ mounted \in {"question", "paper", "results", "auth"}
  /\ QuestionInit /\ (mounted = "question" \/ (qpage = "new" /\ form = StartOf("NONE")))
  /\ PaperInit    /\ (mounted = "paper" \/ creating)
  /\ ResultInit   /\ (mounted = "results" \/ desk.kind = "results")
  /\ AuthInit

PagesNext ==
  /\ UNCHANGED mounted
  /\ \/ mounted = "question" /\ QuestionNext /\ UNCHANGED <<paperVars, resultVars, authVars>>
     \/ mounted = "paper" /\ PaperNext /\ UNCHANGED <<questionVars, resultVars, authVars>>
     \/ mounted = "results" /\ ResultNext /\ UNCHANGED <<questionVars, paperVars, authVars>>
     \/ mounted = "auth" /\ AuthNext /\ UNCHANGED <<questionVars, paperVars, resultVars>>

(* The answers to what the question page and the paper page asked for.     *)
AnswersCome ==
  \/ mounted = "question" /\ (SaveGoesOn \/ FetchGoesOn) /\ UNCHANGED <<mounted, paperVars, resultVars, authVars>>
  \/ mounted = "paper" /\ PaperGoesOn /\ UNCHANGED <<mounted, questionVars, resultVars, authVars>>

PagesSpec == PagesInit /\ [][PagesNext]_pageVars /\ WF_pageVars(AnswersCome)

-----------------------------------------------------------------------------
(* The type invariant of the page that is mounted.                         *)
PagesTypeOK ==
  /\ mounted = "question" => QuestionTypeOK
  /\ mounted = "paper"    => PaperTypeOK
  /\ mounted = "results"  => ResultTypeOK
  /\ mounted = "auth"     => AuthTypeOK

(* Neither page waits for ever, whatever it saves and loads at a time.     *)
PagesSettle == []<>(~saving /\ ~loading /\ ~psaving /\ ~ploading)
=============================================================================
