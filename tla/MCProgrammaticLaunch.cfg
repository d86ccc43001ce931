CONSTANTS
  CTAs = {c1, c2}
  Entries <- MCEntries
  Options <- MCOptions
  MaxGrids = 3
SPECIFICATION Spec
SYMMETRY Symmetry
INVARIANTS
  TypeOK
  SafeAccess
  CompletionInOrder
  WrittenOrderKept
