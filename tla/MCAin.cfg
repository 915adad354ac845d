CONSTANTS
  NULL = NULL
  Garbage = Garbage
  Owners = {"S"}
  Members = {"f"}
  Images <- MCImages
  MaxFunctions = 3
  MaxStructures = 2
  Texts = {"a", "b", "c"}
  StringTables <- MCStringTables
  MaxStrings = 5
  Versions <- NewVersions
  MaxEntries = 1
  Files <- MCFiles
  Programs <- MCPrograms
  StackSize = 2
SPECIFICATION SpecAin
INVARIANT FunctionsFound
INVARIANT StructuresFound
INVARIANT OwnersInferred
INVARIANT FreedOnce
INVARIANT StringsFound
INVARIANT NothingDropped
INVARIANT OpenedAsWritten
INVARIANT CursorOnInstruction
INVARIANT FunctionIsInnermost
CHECK_DEADLOCK FALSE
