CONSTANTS
  Savers = {s1, s2, s3}
  Nothing = Nothing
  Foreign = Foreign
  InPlace = InPlace
  Stream = Stream
  Link = Link
  Attempts = 2
  MaxMoves = 2
SYMMETRY AnySaver
SPECIFICATION Spec
PROPERTY NeverReplaced
CHECK_DEADLOCK FALSE
