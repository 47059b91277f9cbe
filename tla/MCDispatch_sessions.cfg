\* Two agents that register, reconnect and close in any order, one of which
\* reports the other under another spelling, with cost applies.
CONSTANTS
    NoCost = NoCost
    NoRid = NoRid
    NoName = NoName
    NoToken = NoToken
    NoAgent = NoAgent
    NoLink = NoLink
    NoConn = NoConn
    na = na
    nb = nb
    nc = nc
    nb2 = nb2
    rb = rb
    iab = iab
    icb = icb
    iba = iba
    Agents <- PairNames
    Names <- SpeltNames
    NameKey <- SpeltKey
    Links <- EndsLinks
    Interfaces <- EndsIfs
    Rids = {rb}
    RouterId <- EndsRids
    PeerRid <- EndsPeers
    Reports <- EndsReports
    Costs = {k1}
    ProbeTiers = {}
    Conns = {c1, c2}
    Ids = {i1}
SYMMETRY ConnIdSymmetry
SPECIFICATION Spec
CONSTRAINT CostsOfOneEnd
INVARIANTS SessionOwnsAgent NoGhostAgent SpellingSettled
