CONSTANTS
  Orders = {o1, o2}
  Rendered = "request"
SPECIFICATION Spec
CHECK_DEADLOCK FALSE
INVARIANTS
  TypeOK
  PaysForThePreview
  NoForgottenReservation
PROPERTIES
  PaidOrdersAreShown
