CONSTANTS
  Modules <- MCModules
  Types <- Contested
  NoType <- InvalidType
  NoSpec = NoSpec
  BuiltIn <- MCBuiltIn
  Signatures = 1
  Platforms = {"precision", "proliant"}
  NoPlatform = "none"
  Buffers = {b1, b2}
  MaxModules = 2
  MaxErrors = 1
SYMMETRY Allocations
SPECIFICATION Spec
INVARIANT VendorNameLives
CHECK_DEADLOCK FALSE
