SPECIFICATION MCSpec
CONSTANTS
  i1 = i1
  i2 = i2
  i3 = i3
  i4 = i4
  i5 = i5
  i6 = i6
  i7 = i7
  i8 = i8
  i9 = i9
  ka = ka
  kb = kb
  kc = kc
  kd = kd
  Items = {i1, i2, i3, i4, i5, i6, i7, i8}
  Keys = {ka, kb, kc, kd}
  KeyOf <- KeyOfSome
  Hash <- HashOfSome
  NoItem = NoItem
  Pow2 = {1, 2, 4, 8, 16}
  SizeInit = 1
  SizeMax = 8
  FixedSizes = {0, 3}
  Memory = {"ample", "short"}
  MaxCount = 9
  MaxIterated = 0
SYMMETRY Symmetry
INVARIANTS
  TypeOK
  InPlace
  LoadBounded
PROPERTIES
  IterMeetsEach
  IsMap
