SPECIFICATION MCSpec
CONSTANTS
  a1 = a1
  e1 = e1
  e2 = e2
  i1 = i1
  i2 = i2
  p1 = p1
  None = None
  Page = "closed"
  Payments = {1}
  Invoices = {1}
  Refunds = {1, 2}
  Amount = 2
  Total = 2
  Categories = {"income"}
  Others = {"links", "hooks", "sync"}
INVARIANTS StatesOK PagesConverge   DecisionsStay SyncAgrees 
CHECK_DEADLOCK FALSE
