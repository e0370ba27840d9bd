CONSTANTS
  o1 = o1
  o2 = o2
  p1 = p1
  p3 = p3
  Orders = {o1, o2}
  Payments = {p1, p2}
  Numbers = {n1, n2}
  Hooks = {h1, h2}
  Sweepers = {s1}
  Qty <- QtyOne
  OrderOf <- PayTwoOne
  Total = 1
  Events <- DeclinedThenApproved
  Mortal = {h1}
  MailCap = 2
  NoPayment = NoPayment
SPECIFICATION FairSpec
CHECK_DEADLOCK FALSE
INVARIANT NothingStranded
PROPERTIES
  LapsedOrdersClose
