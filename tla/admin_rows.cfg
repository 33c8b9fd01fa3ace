\* Three options under a timer; two lists over two questions and a paper,
\* two requests; two tabs over one exam, two papers and a candidate; two
\* accounts, one of them the default administrator, and two requests.
SPECIFICATION RowsSpec
CONSTANTS
  MaxOptions = 3
  MaxAdded = 3
  MaxPending = 1
  Desks = {d1, d2}
  BankItems = {q1, q2}
  BankPapers = {p1}
  MaxAsked = 2
  Tabs = {t1, t2}
  ExamPapers = {x1, x2}
  Candidates = {c1}
  Accounts = {a1, a2}
  Super = a1
  UserGroups = {g1}
  Offered = {"ADMIN", "STUDENT"}
  Slots = {1, 2}
  MaxWishes = 2
SYMMETRY Symmetry
INVARIANTS
  RowsTypeOK
  MarksFollowOptions
  SavedIsWhatIsShown
  SerialContentSound
  ReportsHold
  PublishedIsComplete
  LastHandlerDecides
PROPERTIES
  SnapshotFrozen
  DrawerClosesForItsOwn
\* Administrators who have used up the bounds may stop.
CHECK_DEADLOCK FALSE
