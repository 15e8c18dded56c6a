SPECIFICATION MCSpec
CONSTANTS
  n1 = n1
  n2 = n2
  n3 = n3
  n4 = n4
  n5 = n5
  n6 = n6
  n7 = n7
  Chosen = {TRUE, FALSE}
  Items = {n1, n2, n3, n4, n5, n6, n7}
  NoItem = NoItem
  Keys = {0, 1, 2}
  KeyReverse = TRUE
  SizeInit = 8
  PtrSize = 8
  MaxCount = 7
  IndexGarbage = {0}
VIEW OrderView
INVARIANTS
  TypeOK
  BackPointers
  LinkedIffHeld
  CountIsHeld
  AlmostOrdered
  HeapOrder
  MinAtRoot
PROPERTIES
  CallsReturn
CHECK_DEADLOCK FALSE
