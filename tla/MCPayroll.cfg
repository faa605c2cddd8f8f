SPECIFICATION MCSpec
CONSTANTS
  e1 = e1
  p1 = p1
  p2 = p2
  a1 = a1
  a2 = a2
  w1 = w1
  Employees = {e1}
  Periods = {p1}
  Accounts = {"cash", "bank"}
  Gross = 2
  Deductions = 0
  Cash = 3
  Runs = {1}
  Admins = {a1}
  Kinds = {"create", "approve", "pay"}
  Workers = {w1, w2}
  Waits = FALSE
  Loses = TRUE
  None = None
INVARIANTS StatesOK SalariesLeaveOnce
CHECK_DEADLOCK FALSE
