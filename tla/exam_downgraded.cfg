\* Two tabs, a paper and a candidate.
SPECIFICATION ConsoleSpec
CONSTANTS
  Tabs = {t1, t2}
  ExamPapers = {x1}
  Candidates = {c1}
PROPERTIES
  LockedAfterPublish
\* The administrators may stop.
CHECK_DEADLOCK FALSE
