\* Two racing or repeated SubmitExam calls, two coded answers judged by two
\* workers, one fault of the judge and one of the grader.
SPECIFICATION Spec
CONSTANTS
  Jobs = {c1, c2}
  Coded = {c1, c2}
  Objective = {o1}
  Essays = {}
  Workers = {w1, w2}
  Graders = {g1, g2}
  Verdicts = {"ACCEPTED"}
  MaxRetry = 1
  MaxFaults = 1
  MaxGradeFaults = 1
  None = None
SYMMETRY Symmetry
INVARIANTS
  GradingTypeOK
  SoleGrader
  AckedSubmitHasResult
  ScoreNeverOverstated
  SerialSummaryExact
\* Every call and every delivery comes to an end, so the system may stop.
CHECK_DEADLOCK FALSE
