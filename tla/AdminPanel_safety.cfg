CONSTANTS
  Draws = {d1}
  Total = 1
  Limit = 1
SPECIFICATION Spec
INVARIANTS
  TypeOK
  InventoryLeavesNothingOut
  ChangesAreShown
  SettlesOnceWhileAnswersArrive
PROPERTIES
  PanelComesBack
