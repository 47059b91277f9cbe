\* One tunnel: lost and late commands, refusals, new sessions and registrations.
CONSTANTS
    NoCost = NoCost
    NoRid = NoRid
    NoName = NoName
    Static = Static
    Absent = Absent
    na = na
    nb = nb
    iab = iab
    Agents = {na}
    Names = {na, nb}
    NameKey <- OwnKey
    Links <- OnlyLink
    Interfaces = {iab}
    Rids = {}
    RouterId <- NoRouterId
    PeerRid <- NoPeerRid
    Costs = {k1, k2}
    Ids = {i1, i2}
    Tunnel <- Only
    Refreshers = {r1}
    MaxResets = 0
    MaxAbsences = 1
    MaxReconnects = 1
SYMMETRY Symmetry
SPECIFICATION Spec
INVARIANT MemoryTrue
