CONSTANTS
  Draws = {d1, d2}
  Numbers = {n1}
  Admins = {a1}
  Settlers = {a1}
  Mortal = {}
  NoDraw = NoDraw
  NoNumber = NoNumber
SPECIFICATION Spec
SYMMETRY Symmetry
PROPERTY SettlementIsIdempotent
