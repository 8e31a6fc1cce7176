SPECIFICATION Spec
CONSTANTS
    g1 = g1  g2 = g2  s1 = s1  c1 = c1  waf = waf  shield = shield
    Gateways <- TwoGateways
    Services <- OneService
    Configs <- OneConfig
    Addons <- TwoAddons
    Settings <- Safe
    MaxChanges = 3
    None = None
SYMMETRY GatewaySymmetry
INVARIANTS RefCountExact NoOrphanAddon FinalizerProtects
PROPERTY TGCKept
CHECK_DEADLOCK FALSE
