CONSTANTS
  o1 = o1
  o2 = o2
  p1 = p1
  p3 = p3
  Orders = {o1}
  Payments = {p1}
  Numbers = {n1}
  Hooks = {h1}
  Sweepers = {s1}
  Qty <- QtyOne
  OrderOf <- PayTwoOne
  Total = 1
  Events <- Approvals
  Mortal = {}
  MailCap = 2
  NoPayment = NoPayment
SPECIFICATION ResendSpec
CHECK_DEADLOCK FALSE
PROPERTY ResendReconciles
