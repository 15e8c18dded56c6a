SPECIFICATION MCSpec
CONSTANTS
  n1 = n1
  n2 = n2
  n3 = n3
  n4 = n4
  n5 = n5
  n6 = n6
  n7 = n7
  Chosen = {FALSE}
  Items = {n1, n2, n3}
  NoItem = NoItem
  Keys = {0, 1}
  KeyReverse = FALSE
  SizeInit = 2
  PtrSize = 8
  MaxCount = 3
  IndexGarbage = {0}
SYMMETRY Symmetry
INVARIANTS
  StaysInBlock
