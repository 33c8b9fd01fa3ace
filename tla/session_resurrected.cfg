\* A resume and a submit of the same candidate, at one instant.
SPECIFICATION Spec
CONSTANTS
  Requests = {r1, r2}
  Questions = {q1}
  StartTime = 0
  EndTime = 2
  Duration = 2
  MaxTime = 0
  MaxSessions = 1
  None = None
PROPERTY
  SubmittedIsFinal
\* Every request is answered once, so the system may stop.
CHECK_DEADLOCK FALSE
