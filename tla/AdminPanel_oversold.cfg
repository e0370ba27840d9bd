CONSTANTS
  Draws = {d1}
  Total = 1
  Limit = 2
SPECIFICATION Spec
INVARIANTS
  TypeOK
  InventoryLeavesNothingOut
  ChangesAreShown
  SettlesOnceWhileAnswersArrive
PROPERTIES
  LivesSpec
