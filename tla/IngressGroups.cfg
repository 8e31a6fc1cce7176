CONSTANTS
  Names <- MCNames
  Explicit <- MCExplicit
  Settings <- MCSettings
SPECIFICATION Spec
PROPERTIES ServesOnlyWhatExists WithdrawnOnPurpose EventuallySettled
CHECK_DEADLOCK FALSE
