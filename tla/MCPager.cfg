CONSTANTS
  Commands = {"show", "entry", "other"}
  Signals = {"INT", "TERM", "HUP"}
  Output = 3
  PipeSize = 2
  LastDescriptor = 4
  Inherited <- AllOpen
SPECIFICATION Spec
INVARIANTS
  TypeOK
  TerminalIsFree
  StatusTells
PROPERTY ToolEnds
CHECK_DEADLOCK FALSE
