CONSTANTS
  o1 = o1
  o2 = o2
  p1 = p1
  p3 = p3
  Orders = {o1, o2}
  Payments = {p1, p2}
  Numbers = {n1, n2, n3}
  Hooks = {h1, h2}
  Sweepers = {s1, s2}
  Qty <- QtyTwoOne
  OrderOf <- PayTwoOne
  Total = 3
  Events <- DeclinedThenApproved
  Mortal = {h1, h2, s1}
  MailCap = 3
  NoPayment = NoPayment
SPECIFICATION Spec
CHECK_DEADLOCK FALSE
SYMMETRY Symmetry
INVARIANTS
  TypeOK
  PaidOrdersOwnTheirNumbers
  MailsAreBounded
  PaidByAnApprovedPayment
  TicketsMoveTogether
PROPERTIES
  SaleSpec
  CountsSpec
  LifeSpec
