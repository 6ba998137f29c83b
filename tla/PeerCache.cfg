SPECIFICATION Spec
CONSTANTS
    self = self
    k1 = k1
    ip0 = ip0
    l1 = l1
    Key <- MCKey
    SelfKey = self
    IP = {ip0}
    SelfIP = ip0
    LanEp = {l1}
    NatEp = {}
    Alias = {}
    None = None
    Live = Live
    Empty = Empty
    Torn = Torn
    Obj = {o1, o2, o3}
    Infos <- MCInfos
INVARIANTS TypeOK LoadsAreReads NoSharing
PROPERTIES ImplementsPeerMap
