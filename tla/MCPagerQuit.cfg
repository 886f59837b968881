CONSTANTS
  Commands = {"show"}
  Signals = {"INT", "TERM", "HUP"}
  Output = 3
  PipeSize = 2
  LastDescriptor = 4
  Inherited <- AllOpen
SPECIFICATION Spec
INVARIANT QuitIsSuccess
CHECK_DEADLOCK FALSE
