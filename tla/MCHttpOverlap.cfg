SPECIFICATION MCSpec
CONSTANTS
  Digits <- FourDigits
  SizeWidth = 2
  MaxWire = 48
  Methods = {"GET", "PUT"}
  Versions = {"1.0", "1.1"}
  StatusCodes = {"200", "404"}
  Bytes <- SomeBytes
  Messages <- SomeMessages
  Code <- SomeCodes
  Pieces <- SomePieces
  MaxPath = 6
  Names <- SomeNames
  Values <- SomeValues
  MaxFields = 3
  QueryRoom = 20
  Totals = {3}
  Positions = {1, 3}
  Rooms = {1, 2}
  MaxAskedRanges = 3
  f1 = f1
  f2 = f2
  Fds = {f1, f2}
  Listeners = {}
  Happenings = {"read", "write"}
  MaxEvents = 2
INVARIANTS
  OverlapsRefused
CHECK_DEADLOCK FALSE
