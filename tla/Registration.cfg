SPECIFICATION AccountsSpec
CONSTANTS
  student = student
  driver = driver
  manager = manager
  root = root
  Users = {student, driver}
  Staff = {manager, root}
  SuperAdmins = {root}
  Administers <- MCAdministers
  Drivers = {driver}
  Calls = {1, 2}
  Requests <- MCRequests
  Grace = 2
  Retention = 2
  SemesterEnds = {1, 3, 5, 7, 9, 11, 13, 15}
  Sundays = {2, 4, 6, 8, 10, 12, 14}
  Outages = {5}
  LastCallDay = 5
  LastDay = 14
INVARIANTS
  AccountsTypeOK
  SubmittedIsSafe
PROPERTIES
  RemovedNoSooner
  LapsedAccountsClose
