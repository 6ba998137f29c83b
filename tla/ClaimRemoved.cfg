SPECIFICATION SysSpec
CONSTANTS
    self = self
    k1 = k1
    a1 = a1
    Key <- MCKey
    SelfKey = self
    IP <- MCIP
    SelfIP <- MCSelfIP
    LanEp = {}
    NatEp = {}
    Alias = {a1}
    Req = {r1}
    Requests = {}
    Assignments <- MCAssignments
    Removals = {k1}
    Cmd = {c1}
    Adds <- MCAdds
    Targets <- MCTargets
    Network <- MCNetwork
    Bits = 1
    Puts <- MCPuts
    AliasPuts = {}
    None = None
    Live = Live
    Empty = Empty
    Torn = Torn
INVARIANTS RemovedStaysRemoved
