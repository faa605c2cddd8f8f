SPECIFICATION MCSpec
CONSTANTS
  a1 = a1
  a2 = a2
  a3 = a3
  t1 = t1
  s1 = s1
  p1 = p1
  o1 = o1
  o2 = o2
  s2 = s2
  i1 = i1
  AllModules = AllModules
  None = None
  Payments = {1, 2}
  References = {"utr"}
  Invoices = {i1}
  Total = 2
  Requests = {1, 2}
  MaxTokens = 1
  SingleWriter = TRUE
  OneByOne = FALSE
SYMMETRY Symmetry
INVARIANTS StatesOK OrganizationHolds ContentIsOwn PagesConverge RegisterActsAsShown ExternalPaymentsOnce PickIsExact
CHECK_DEADLOCK FALSE
