SPECIFICATION MCSpec
CONSTANTS
  f1 = f1
  f2 = f2
  f3 = f3
  d1 = d1
  k1 = k1
  k2 = k2
  l1 = l1
  l2 = l2
  None = None
  Emails = {e1}
  Codes = {k1, k2, k3}
  SignUpPages = {f3}
  ForgotDialogs = {}
  MaxFailures = 2
SYMMETRY Symmetry
INVARIANTS StatesOK  OnlyNewestWorks  AccountsAsDecided
CHECK_DEADLOCK FALSE
