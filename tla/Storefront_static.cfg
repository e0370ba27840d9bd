CONSTANTS
  Orders = {o1}
  Rendered = "build"
SPECIFICATION Spec
CHECK_DEADLOCK FALSE
PROPERTIES
  PaidOrdersAreShown
