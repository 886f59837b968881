CONSTANTS
  Modules <- MCModules
  Types <- Contested
  NoType <- InvalidType
  NoSpec = NoSpec
  BuiltIn <- MCBuiltIn
  Signatures = 1
  Platforms = {"precision", "proliant"}
  NoPlatform = "none"
  Buffers = {b1, b2}
  MaxModules = 2
  MaxErrors = 1
SYMMETRY Allocations
SPECIFICATION Spec
INVARIANTS TypeOK NothingLeaks ContextIsWhole MapSound MapComplete
CHECK_DEADLOCK FALSE
