CONSTANTS
  Shapes <- MCShapes
  Roles <- MCRoles
  Values <- MCValues
  Malformed = {"bad"}
  Known = {"better"}
  MaxLength = 3
SPECIFICATION Spec
PROPERTY MemoryStopsDecoding
CHECK_DEADLOCK FALSE
