CONSTANTS
    g1 = g1
    g2 = g2
    o1 = o1
    o2 = o2
    None = None
    Groups = {g1, g2}
    Objects = {o1, o2}
    FinalizerFirst = {g1}
    Homes <- OneHome
    MaxChanges = 5
    MaxFaults = 2
    MaxSG = 5
SPECIFICATION FairSpec
INVARIANTS
    HeldSGExists
    DeleteOnlyUnused
    AtMostOneSG
PROPERTIES
    EventuallyServed
