CONSTANTS
  s1 = s1
  s2 = s2
  plain = plain
  Ids = {s1, s2}
  Skeletons <- MCSkeletons
  Values = {empty, va}
  Empty = empty
  Marks = {none, m1}
  NoMark = none
  MaxHistory = 2
SPECIFICATION Spec
INVARIANTS
  RowsFillTheText
PROPERTIES
  IsOneHistory
CHECK_DEADLOCK FALSE
