CONSTANTS
  o1 = o1
  Orders = {o1}
  Calls = {c1}
  OrderOf <- SameOrder
  Attempts = 5
  Faults = {}
SPECIFICATION Spec
CHECK_DEADLOCK FALSE
INVARIANT DeliveredIsShown
