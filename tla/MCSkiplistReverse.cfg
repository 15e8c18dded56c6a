SPECIFICATION MCSpec
CONSTANTS
  s1 = s1
  s2 = s2
  s3 = s3
  s4 = s4
  s5 = s5
  Items = {s1, s2, s3}
  KeyOf <- KeyOfSome
  NoItem = NoItem
  StopKeys = {}
  NoKey = NoKey
  KeyReverse = TRUE
  MaxLevel = 3
  LevelBound = 3
  MaxFailed = 0
  MaxIterated = 0
  Keys = {0, 1, 2, 3, 4, 5}
PROPERTIES
  DeleteFindsLinked
CHECK_DEADLOCK FALSE
