SPECIFICATION PagesSpec
CONSTANTS
  Ids = {1, 2, 3}
  SortKeys = {1, 2}
  Inexact = {}
  Missing = Missing
  Absent = Absent
  PageLimit = 1
INVARIANT EveryRowOnce
CHECK_DEADLOCK FALSE
