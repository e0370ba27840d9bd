CONSTANTS
  t1 = t1
  t2 = t2
  Draws = {d1, d2}
  Titles = {t1, t2}
  SlugOf <- TitleSlugs
  Dates = {day1}
  Visits = {v1, v2}
  Requests = {r1, r2}
SPECIFICATION Spec
SYMMETRY Symmetry
CHECK_DEADLOCK FALSE
INVARIANTS
  TypeOK
  CalendarIsNeverEmpty
  OneMajorPrize
  MajorPrizeIsAccountedFor
  SlugFollowsTitle
  PositionsInRange
  ReorderIsHonoured
