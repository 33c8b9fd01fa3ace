\* One coded answer, one free run of CreateSubmission, an essay and an
\* objective question; verdicts that differ.
SPECIFICATION FairSpec
CONSTANTS
  Jobs = {c1, d1}
  Coded = {c1}
  Objective = {o1}
  Essays = {e1}
  Workers = {w1}
  Graders = {g1}
  Verdicts = {"ACCEPTED", "WRONG_ANSWER"}
  MaxRetry = 1
  MaxFaults = 1
  MaxGradeFaults = 1
  None = None
INVARIANTS
  VerdictsAgree
PROPERTIES
  QuestionResultsAreFinal
  UndisturbedResultSettles
\* Every call and every delivery comes to an end, so the system may stop.
CHECK_DEADLOCK FALSE
