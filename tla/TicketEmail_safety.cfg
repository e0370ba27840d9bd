CONSTANTS
  o1 = o1
  Orders = {o1}
  Calls = {c1, c2}
  OrderOf <- SameOrder
  Attempts = 2
  Faults = {"redis", "provider", "database", "api", "worker"}
SPECIFICATION FairSpec
CHECK_DEADLOCK FALSE
INVARIANTS
  TypeOK
  SentMeansDelivered
  NoApprovalForgotten
PROPERTY JobsSettle
