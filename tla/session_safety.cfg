\* Any three requests of the candidate and the administrators, over a clock
\* that passes the window's start, its end and the personal time limit.
SPECIFICATION Spec
CONSTANTS
  Requests = {r1, r2, r3}
  Questions = {q1, q2}
  StartTime = 1
  EndTime = 2
  Duration = 1
  MaxTime = 3
  MaxSessions = 2
  None = None
SYMMETRY Symmetry
INVARIANTS
  SessionTypeOK
  ResultMeansSubmitted
  AckedAnswersAreGraded
  TimerNeverExtended
  SessionInv
PROPERTIES
  ProgressIsKept
  ResultIsFinal
\* Every request is answered once, so the system may stop.
CHECK_DEADLOCK FALSE
