CONSTANTS
  MaxDepth = 3
  Reasons = {r1, r2}
  NoReason = r0
  Text = text
  NoText = noText
SPECIFICATION Spec
INVARIANTS TypeOK NoMessageLeak HandedOut
PROPERTY Implements
