CONSTANTS
  Shapes <- MCShapes
  Roles <- MCRoles
  Values <- MCValues
  Malformed = {"bad"}
  Known = {"better"}
  MaxLength = 3
SPECIFICATION Spec
INVARIANTS TypeOK DecodedAsOverlaid OpeningVerdict OnlyFaultsReported LinkVerdict PropertiesInOrder
PROPERTIES StagesReportAll OpeningEnds
CHECK_DEADLOCK FALSE
