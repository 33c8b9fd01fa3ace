\* No fault at all: a worker faster than the grader.
SPECIFICATION FairSpec
CONSTANTS
  Jobs = {c1}
  Coded = {c1}
  Objective = {o1}
  Essays = {}
  Workers = {w1}
  Graders = {g1}
  Verdicts = {"ACCEPTED"}
  MaxRetry = 3
  MaxFaults = 0
  MaxGradeFaults = 0
  None = None
PROPERTIES
  JudgedAnswerIsScored
\* Every call and every delivery comes to an end, so the system may stop.
CHECK_DEADLOCK FALSE
