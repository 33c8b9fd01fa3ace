\* The default administrator and another account.
SPECIFICATION AccountSpec
CONSTANTS
  Accounts = {a1, a2}
  Super = a1
  UserGroups = {g1}
  Offered = {"ADMIN", "TEACHER", "STUDENT"}
  Slots = {1, 2}
  MaxWishes = 2
INVARIANTS
  AdministratorsAdminister
\* The administrator may stop.
CHECK_DEADLOCK FALSE
