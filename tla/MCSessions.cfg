SPECIFICATION MCSpec
CONSTANTS
  t1 = t1
  t2 = t2
  t3 = t3
  n1 = n1
  Tabs = {t3}
  Calls = {c1, c2}
  Users = {u1}
  Tenants = {u1}
  Opened = {}
  Tokens = {n1, n2, n3}
  Loses = FALSE
  MaxResets = 1
  None = None
SYMMETRY Symmetry
INVARIANTS StatesOK RaceKeepsSession
PROPERTY OnlySignOutSignsOut
CHECK_DEADLOCK FALSE
