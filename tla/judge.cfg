\* Two jobs, two workers; two redeliveries, so that a second and a last chance
\* differ, and three faults, so that every fault can follow any two others.
SPECIFICATION FairJudgeSpec
CONSTANTS
  Jobs = {j1, j2}
  Workers = {w1, w2}
  Verdicts = {"ACCEPTED", "SYSTEM_ERROR"}
  MaxRetry = 2
  MaxFaults = 3
  None = None
INVARIANTS
  JudgeTypeOK
  JudgedAtMostOnce
  FailedDispatchNeverJudged
  AckedMeansJudged
  JudgeInv
PROPERTIES
  RowLifecycle
  MessagesDrain
  QueuedJobIsJudged
\* The callers and the queue come to rest when every job is finished with.
CHECK_DEADLOCK FALSE
