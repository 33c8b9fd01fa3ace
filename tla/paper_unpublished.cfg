\* Two desks over a question and a paper.
SPECIFICATION ListsSpec
CONSTANTS
  Desks = {d1, d2}
  BankItems = {q1}
  BankPapers = {p1}
  MaxAsked = 2
INVARIANTS
  PublishedPaperKeepsQuestions
\* The administrators may stop.
CHECK_DEADLOCK FALSE
