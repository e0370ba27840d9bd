CONSTANTS
  o1 = o1
  o2 = o2
  p1 = p1
  p3 = p3
  Orders = {o1, o2}
  Payments = {p1, p3}
  Numbers = {n1}
  Hooks = {h1, h2}
  Sweepers = {s1}
  Qty <- QtyOne
  OrderOf <- PayTwoOne
  Total = 1
  Events <- Approvals
  Mortal = {}
  MailCap = 2
  NoPayment = NoPayment
SPECIFICATION Spec
CHECK_DEADLOCK FALSE
SYMMETRY Symmetry
INVARIANT MailedOnce
