CONSTANTS
  h1 = h1
  h2 = h2
  h3 = h3
  NULL = NULL
  Handles = {h1, h2, h3}
  Files <- MCFiles
  MaxEdits = 2
  MaxHeld = 1
  Sizes <- MCSizes
SYMMETRY Symmetry
SPECIFICATION SpecEx
INVARIANT RefExact
INVARIANT AppendMerges
INVARIANT ReplaceOfExtract
INVARIANT AppendedIsFound
INVARIANT LookupsLive
INVARIANT NeverMisread
INVARIANT FailsOnlyOnMixedFiles
CHECK_DEADLOCK FALSE
