SPECIFICATION FairSpec
CONSTANTS
    g1 = g1  g2 = g2  s1 = s1  c1 = c1  waf = waf  shield = shield
    Gateways <- OneGateway
    Services <- OneService
    Configs <- Nothing
    Addons <- OneAddon
    Settings <- Live
    MaxChanges = 3
    None = None
PROPERTY EventuallyDeleted
CHECK_DEADLOCK FALSE
