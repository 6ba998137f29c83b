SPECIFICATION CtlSpec
CONSTANTS
    self = self
    k1 = k1
    k2 = k2
    a1 = a1
    b1 = b1
    n1 = n1
    Key <- MCKey
    SelfKey = self
    IP <- MCIP
    SelfIP <- MCSelfIP
    LanEp = {}
    NatEp = {n1}
    Alias = {a1, b1}
    None = None
    Live = Live
    Empty = Empty
    Torn = Torn
    Cmd = {c1}
    Adds <- MCAdds
    Targets <- MCTargets
    Network <- MCNetwork
    Bits = 1
    Puts <- MCPuts
    AliasPuts <- MCAliasPuts
INVARIANTS CtlTypeOK ListedAliasResolves SameVictim AllocationExact
