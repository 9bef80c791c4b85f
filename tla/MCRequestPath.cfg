CONSTANTS
  KeyMod = 4
  ValueMod = 8
  MaxValue = 3
  HdrLen = 3
  NULL = NULL
  NoBase = NoBase
  None = None
  Made = Made
  NumberOf <- MCNumberOf
  Chars <- MCChars
  FooBarBaz <- MCFooBarBaz
  Works <- SomeWorks
  MarkLen = 2
  HeaderLen = 2
  MaxShorts = 1
SPECIFICATION FairSpec
INVARIANTS TypeOK InStep MessagesWhole WrittenIsRead StoredUnder ParsedInsideBody CrashesOnlySo
PROPERTIES TurnsEnd
