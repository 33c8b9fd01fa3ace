\* Programming and choice questions; two questions in two sections; two exams
\* with three list requests under way; two tabs, an administrator and another.
SPECIFICATION PagesSpec
CONSTANTS
  QTypes = {"SINGLE_CHOICE", "PROGRAMMING"}
  MaxTexts = 3
  MaxCases = 1
  MaxLost = 1
  Bank = {b1, b2}
  MaxSections = 2
  MaxTitles = 2
  MaxEdits = 2
  MaxWithdrawn = 1
  MaxFailures = 1
  Sittings = {e1, e2}
  Entries = {r1, r2}
  NoSitting = NoSitting
  NoEntry = NoEntry
  MaxListings = 3
  MaxReadings = 2
  AuthTabs = {t1, t2}
  People = {u1, u2}
  Admins = {u1}
  Nobody = Nobody
  MaxLogins = 2
INVARIANTS
  PagesTypeOK
  QuestionIsKept
  NoQuestionTwice
  PublishedIsReady
  CleanShowsStored
  AtRestShowsTheChosen
  ActsAsShown
PROPERTIES
  PagesSettle
\* A page whose administrator has used up the bounds may stop.
CHECK_DEADLOCK FALSE
