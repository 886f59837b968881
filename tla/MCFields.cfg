SPECIFICATION Spec
CONSTANTS
  Specs <- MCSpecs
  Bodies <- MCBodies
  TableVersions <- MCTableVersions
  WrittenVersions <- MCWrittenVersions
INVARIANTS
  TypeOK
  
  FlagsTellTheLength
  ArraysAreWhole
  ReadIsShown
  Preserved
  CanonicalSettles
  RefusedOnly
