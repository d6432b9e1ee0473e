SPECIFICATION Spec
CONSTANTS
  h1 = h1
  h2 = h2
  t1 = t1
  t2 = t2
  t3 = t3
  NULL = NULL
  Handles = {h1, h2}
  Timers = {t1, t2, t3}
  Times = {1, 2, 3}
INVARIANTS
  PointersAgree
PROPERTIES
  RefinesDeadlines
  PassesEnd
