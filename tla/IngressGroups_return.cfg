CONSTANTS
  Names <- MCNames
  Explicit <- MCExplicit
  Settings <- ReturningSettings
SPECIFICATION Spec
INVARIANT ServedIsFinalized
CHECK_DEADLOCK FALSE
