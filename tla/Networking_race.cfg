SPECIFICATION Spec
CONSTANTS
    Parts = {"network"}
    NetworkSettings <- Racing
    None = None
INVARIANTS DesiredGranted
CHECK_DEADLOCK FALSE
