SPECIFICATION Spec
CONSTANTS
  Invoices = {i1}
  Payments = {p1, p2}
  Workers = {w1, w2}
  None = None
  Accounts = {"1100"}
  Advances = "2400"
  Inventory = "1200"
  Amounts = {1, 2}
  Units = {1}
  OpeningStock = 1
  UnitCost = 1
  MaxEdits = 2
  MaxEntries = 1
  Isolated = {}
SYMMETRY Symmetry
INVARIANT TypeOK
PROPERTY PaymentsFit
