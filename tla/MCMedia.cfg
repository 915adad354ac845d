CONSTANTS
  NULL = NULL
  Undefined = Undefined
  Chars <- MCChars
  MaxChars = 4
  Pictures <- MCPictures
  PmsPictures <- MCPmsPictures
  CgArchives <- MCCgArchives
  Clear <- MCClear
  Key = Key
  Chunk = 2
  MaxDepth = 5
  Faces <- MCFaces
SPECIFICATION SpecMedia
INVARIANT TextEncodesChars
INVARIANT QueriesSeeCharacters
INVARIANT ImagesDecoded
INVARIANT IndexIsOrdinal
PROPERTY LoadEnds
CHECK_DEADLOCK FALSE
