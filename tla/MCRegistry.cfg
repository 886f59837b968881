CONSTANTS
  tA = tA
  tB = tB
  tE = tE
  Structures <- MCStructures
  References <- MCReferences
  Reserved <- MCReserved
  TypeLists <- MCTypeLists
  EndOfTable = 127
  AnyType = any
  Nothing = nothing
  null = null
  Capacity = 2
  MaxLength = 3
  Limits <- MCLimits
SPECIFICATION Spec
INVARIANTS TypeOK ScanVerdict ScanReports FreedOnce IterGivesMatches
PROPERTIES Implements ScanEnds
CHECK_DEADLOCK FALSE
