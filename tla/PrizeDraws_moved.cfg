CONSTANTS
  t1 = t1
  t2 = t2
  Draws = {d1}
  Titles = {t1, t2}
  SlugOf <- TitleSlugs
  Dates = {day1, day2}
  Visits = {v1}
  Requests = {r1}
SPECIFICATION Spec
CHECK_DEADLOCK FALSE
PROPERTY DrawnKeepsDate
