CONSTANTS
  NULL = NULL
  Absent = Absent
  Undefined = Undefined
  Keys = {"a", "b", "c", "d"}
  Values = {NULL, "v"}
  NrBuckets = 2
  Hash <- MCHash
  Ints <- MCInts
  Strings <- MCStrings
  FirstSize = 2
  MaxItems = 2
  Offsets <- MCOffsets
  MaxIndex = 16
  IniFiles <- MCIniFiles
  IniValues <- MCIniValues
  IniDepth = 1
SPECIFICATION SpecContainers
INVARIANT SlotLive
INVARIANT KeysOnce
PROPERTY ImplementsMap
INVARIANT BufferKeepsData
INVARIANT IniAsWritten
CHECK_DEADLOCK FALSE
