SPECIFICATION KeysSpec
CONSTANTS
    x = x
    ip1 = ip1
    l1 = l1
    n1 = n1
    a1 = a1
    a2 = a2
    Key <- MCKey
    SelfKey <- MCSelf
    IP = {ip1}
    SelfIP = ip1
    LanEp = {l1}
    NatEp = {n1}
    Alias = {a1, a2}
    None = None
    Live = Live
    Empty = Empty
    Torn = Torn
INVARIANTS ReadersAgree
PROPERTIES ImplementsEtcd
