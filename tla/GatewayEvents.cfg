SPECIFICATION Spec
CONSTANTS
  Settings <- MCSettings
  MaxRetries = 1
  MaxLag = 2
  MaxItems = 3
INVARIANTS
  StaleOnlyIfUnannounced
  StatusCurrent
PROPERTIES
  EventuallyQuiet
CHECK_DEADLOCK FALSE
