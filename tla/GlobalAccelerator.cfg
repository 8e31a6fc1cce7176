CONSTANTS
    None = None
    E1 = E1
    E2 = E2
    R1 = R1
    R2 = R2
    Endpoints = {E1, E2}
    Regions = {R1, R2}
    ARNs = {A1, A2}
    Listeners = {L1, L2, L3}
    Settings <- All
    MaxFaults = 1
SPECIFICATION Spec
INVARIANTS OneAccelerator OrderedCalls DoneExactly
PROPERTIES WantedListenersStay EventuallySettled
CHECK_DEADLOCK FALSE
