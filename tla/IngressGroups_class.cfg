CONSTANTS
  Names <- MCNames
  Explicit <- MCExplicit
  Settings <- AccidentSettings
SPECIFICATION Spec
PROPERTIES NeverByAccident
CHECK_DEADLOCK FALSE
