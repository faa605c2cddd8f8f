SPECIFICATION MCSpec
CONSTANTS
  Workers = {w1, w2, w3}
  Kinds = {"payment", "expense", "journal"}
  Plans <- GatewayPlans
  MaxIssued = 1
  t1 = t1
  u1 = u1
  n1 = n1
  n2 = n2
  n3 = n3
  n4 = n4
  a1 = a1
  s1 = s1
  AllModules = AllModules
  None = None
INVARIANTS NumberingInv GaplessInOrder NeverSameNumber
PROPERTIES EveryRequestEnds 
CHECK_DEADLOCK FALSE
