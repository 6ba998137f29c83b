SPECIFICATION Spec
CONSTANTS
    self = self
    k1 = k1
    ip0 = ip0
    ip1 = ip1
    l1 = l1
    l2 = l2
    n1 = n1
    a1 = a1
    Key <- MCKey
    SelfKey = self
    IP <- MCIP
    SelfIP = ip0
    LanEp = {l1, l2}
    NatEp = {}
    Alias = {a1}
    Req = {r1, r2}
    Requests <- MCOverlap
    Assignments <- MCAssignments
    Removals = {}
    None = None
    Live = Live
    Empty = Empty
    Torn = Torn
INVARIANTS CleanMeansStored
PROPERTIES LanOnlyAnnounced
