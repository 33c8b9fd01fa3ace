------------------------------ MODULE MCAdminRows ------------------------------
(***************************************************************************)
(* For TLC, what several administrators do to the same rows, one subject   *)
(* at a time: the lists of questions and papers, one exam, accounts and    *)
(* groups; and the options of a question under their timers.  The state of *)
(* the other subjects stays at one initial state.                          *)
(***************************************************************************)
EXTENDS OptionsEditor, ContentLists, ExamConsole, AccountAdmin, TLC

VARIABLE subject

rowVars == <<subject, optionVars, listVars, consoleVars, accountVars>>

RowsInit ==
  /\ subject \in {"options", "lists", "exam", "accounts"}
  /\ OptionsInit /\ (subject = "options" \/ (answer = {} /\ kind = "SINGLE_CHOICE"))
  /\ ListsInit   /\ (subject = "lists" \/ \A d \in Desks : desk[d].kind = "questions")
  /\ (subject = "lists" \/ \A q \in BankItems : bank[q].status = "DRAFT")
  /\ ConsoleInit /\ (subject = "exam" \/ exam = NoExam)
  /\ AccountInit /\ (subject = "accounts" \/ \A a \in Accounts : account[a] = "ACTIVE")

RowsNext ==
  /\ UNCHANGED subject
  /\ \/ subject = "options" /\ OptionsNext /\ UNCHANGED <<listVars, consoleVars, accountVars>>
     \/ subject = "lists" /\ ListsNext /\ UNCHANGED <<optionVars, consoleVars, accountVars>>
     \/ subject = "exam" /\ ConsoleNext /\ UNCHANGED <<optionVars, listVars, accountVars>>
     \/ subject = "accounts" /\ AccountNext /\ UNCHANGED <<optionVars, listVars, consoleVars>>

(* The lists that are open are interchangeable, and so are the tabs.       *)
Symmetry ==
  Permutations(Desks) \cup Permutations(Tabs)

RowsSpec == RowsInit /\ [][RowsNext]_rowVars

-----------------------------------------------------------------------------
(* The type invariant of the subject.                                      *)
RowsTypeOK ==
  /\ subject = "options"  => OptionsTypeOK
  /\ subject = "lists"    => ListsTypeOK
  /\ subject = "exam"     => ConsoleTypeOK
  /\ subject = "accounts" => AccountTypeOK
=============================================================================
