SPECIFICATION MCSpec
CONSTANTS
  Invoices = {i1, i2}
  Payments = {p1, p2}
  Workers = {w1, w2}
  None = None
  Accounts = {"1100"}
  Advances = "2400"
  Inventory = "1200"
  Amounts = {1, 2}
  Units = {0, 1, 2}
  OpeningStock = 2
  UnitCost = 1
  MaxEdits = 2
  MaxEntries = 2
  Isolated <- Ops
SYMMETRY Symmetry
INVARIANTS BooksInv ReceivablesReconcile RegisterMatchesLedger  StockReconciles OneLiveEntry PaidIsReceived
PROPERTY SettledInvoicesAreFrozen ImplementsOpenItems
