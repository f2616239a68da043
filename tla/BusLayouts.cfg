SPECIFICATION LayoutsSpec
CONSTANTS
  b1 = b1
  b2 = b2
  p1 = p1
  p2 = p2
  here = here
  there = there
  driver = driver
  other = other
  Buses = {b1, b2}
  Plates = {p1, p2}
  Towns = {here, there}
  Staff = {driver, other}
  Leads <- MCLeads
  Columns = 2
  Calls = {c1, c2}
  Requests <- MCRequests
  Drafts <- SmallLayouts
  None = None
SYMMETRY MCCallSymmetry
INVARIANTS
  LayoutsTypeOK
  ValidationExact
  LayoutsNumbered
  LayoutFits
  PreferentialAgree
