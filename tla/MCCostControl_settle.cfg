\* One tunnel under fairness: lost commands, refusals, a redeployment, a reconnect.
CONSTANTS
    NoCost = NoCost
    NoRid = NoRid
    NoName = NoName
    Static = Static
    Absent = Absent
    na = na
    nb = nb
    iab = iab
    Agents = {na}
    Names = {na, nb}
    NameKey <- OwnKey
    Links <- OnlyLink
    Interfaces = {iab}
    Rids = {}
    RouterId <- NoRouterId
    PeerRid <- NoPeerRid
    Costs = {k1, k2}
    Ids = {i1}
    Tunnel <- Only
    Refreshers = {r1}
    MaxResets = 1
    MaxAbsences = 0
    MaxReconnects = 1
SPECIFICATION FairSpec
PROPERTIES DriftRepaired CostSettles
