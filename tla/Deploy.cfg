SPECIFICATION Spec
CONSTANTS
    Parts = {"stack", "listener", "network", "certificates"}
    NetworkSettings <- Ordered
    None = None
INVARIANTS RulesAccepted Converged NoDanglingReference
PROPERTIES WantedStays EventuallyDeployed CoverageKept
CHECK_DEADLOCK FALSE
