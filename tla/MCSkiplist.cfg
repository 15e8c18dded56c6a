SPECIFICATION MCSpec
CONSTANTS
  s1 = s1
  s2 = s2
  s3 = s3
  s4 = s4
  s5 = s5
  Items = {s1, s2, s3, s4, s5}
  KeyOf <- KeyOfSome
  NoItem = NoItem
  StopKeys = {3}
  NoKey = NoKey
  KeyReverse = FALSE
  MaxLevel = 3
  LevelBound = 3
  MaxFailed = 1
  MaxIterated = 0
  Keys = {0, 1, 2, 3, 4, 5}
INVARIANTS
  TypeOK
  Sorted
  Nested
  FaultsOnlyPastEnd
PROPERTIES
  IterInOrder
  IsMap
CHECK_DEADLOCK FALSE
