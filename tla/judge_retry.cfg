\* One job, the code's own MaxRetry and a single fault.
SPECIFICATION FairJudgeSpec
CONSTANTS
  Jobs = {j1}
  Workers = {w1}
  Verdicts = {"ACCEPTED"}
  MaxRetry = 3
  MaxFaults = 1
  None = None
PROPERTY
  InterruptedJudgingIsRetried
\* The callers and the queue come to rest when every job is finished with.
CHECK_DEADLOCK FALSE
