SPECIFICATION FairSpec
CONSTANTS
    p1 = p1  p2 = p2  p3 = p3  a = a  b = b  f1 = f1  f2 = f2
    Pods <- ThreePods
    Targets <- TwoTargets
    Addr <- ThreeAddr
    Gated <- Gate2
    Foreign <- TwoForeign
    Settings <- MCSettings
    None = None
INVARIANTS CheckpointSound CleanedUp
PROPERTIES ForeignUntouched EventuallySettled
CHECK_DEADLOCK FALSE
