CONSTANTS
  h1 = h1
  h2 = h2
  h3 = h3
  o1 = o1
  o2 = o2
  o3 = o3
  o4 = o4
  Empty = Empty
  NULL = NULL
  Handle = {h1, h2, h3}
  Obj = {o1, o2, o3, o4, Empty}
  TextInput <- MCTexts
  CharInput <- MCChars
  MaxIndex = 2
  MaxBytes = 3
  RefMod = 16
SYMMETRY Symmetry
SPECIFICATION Spec
INVARIANT TypeOK
INVARIANT RefCountExact
INVARIANT SharedIsCow
INVARIANT EmptyStringIntact
PROPERTY ImplementsValues
