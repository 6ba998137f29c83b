SPECIFICATION DnsFairSpec
CONSTANTS
    self = self
    k1 = k1
    ip0 = ip0
    ip1 = ip1
    l1 = l1
    l2 = l2
    n1 = n1
    a1 = a1
    a2 = a2
    Key <- MCKey
    SelfKey = self
    IP = {ip0, ip1}
    SelfIP = ip0
    LanEp = {l1, l2}
    NatEp = {n1}
    Alias = {a1, a2}
    None = None
    Live = Live
    Empty = Empty
    Torn = Torn
    Infos <- MCInfos
    Base32 = {a2}
    Named = {l2}
    IPv6 = {n1}
INVARIANTS DnsTypeOK ServedWasHeld AnswerComplete PairedSrv
PROPERTIES QueryAnswered
