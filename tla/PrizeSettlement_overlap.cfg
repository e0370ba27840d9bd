CONSTANTS
  Draws = {d1, d2}
  Numbers = {n1, n2}
  Admins = {a1, a2}
  Settlers = {a1, a2}
  Mortal = {}
  NoDraw = NoDraw
  NoNumber = NoNumber
SPECIFICATION Spec
SYMMETRY Symmetry
INVARIANT OneTicketOnePrize
