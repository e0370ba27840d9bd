CONSTANTS
  Draws = {d1, d2}
  Numbers = {n1, n2}
  Admins = {a1, a2, a3}
  Settlers = {a1, a2}
  Mortal = {a1}
  NoDraw = NoDraw
  NoNumber = NoNumber
SPECIFICATION Spec
SYMMETRY Symmetry
INVARIANTS
  TypeOK
  ShownWinnersHaveWon
  WinnersAgree
PROPERTIES
  WinsAreForever
  LifeSpec
