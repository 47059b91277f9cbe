\* Slots and leases are given back across reconnects, lost commands and
\* registrations that rename the peer of a link under test.
CONSTANTS
    NoCost = NoCost
    NoRid = NoRid
    NoName = NoName
    NoToken = NoToken
    NoAgent = NoAgent
    NoLink = NoLink
    NoConn = NoConn
    na = na
    nb = nb
    nc = nc
    nb2 = nb2
    rb = rb
    iab = iab
    icb = icb
    iba = iba
    Agents <- PairNames
    Names <- SpeltNames
    NameKey <- SpeltKey
    Links <- SpeltLinks
    Interfaces = {iab}
    Rids = {}
    RouterId <- SpeltNoRid
    PeerRid <- PairPeers
    Reports <- SpeltReports
    Costs = {}
    ProbeTiers = {"always", "throughput"}
    Conns = {c1, c2}
    Ids = {i1}
SPECIFICATION FairSpec
PROPERTIES SlotsDrain OrphanedByRenameOnly
