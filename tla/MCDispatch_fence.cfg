\* Throughput tests of two agents on two links that share a node, one session per agent.
CONSTANTS
    NoCost = NoCost
    NoRid = NoRid
    NoName = NoName
    NoToken = NoToken
    NoAgent = NoAgent
    NoLink = NoLink
    NoConn = NoConn
    na = na
    nb = nb
    nc = nc
    nb2 = nb2
    rb = rb
    iab = iab
    icb = icb
    iba = iba
    Agents <- StarAgents
    Names <- StarNames
    NameKey <- StarKey
    Links <- StarLinks
    Interfaces <- StarIfs
    Rids = {}
    RouterId <- StarNoRid
    PeerRid <- StarPeers
    Costs = {}
    Reports <- StarReports
    ProbeTiers = {"throughput"}
    Conns = {c1, c2}
    Ids = {i1, i2}
SYMMETRY ConnIdSymmetry
SPECIFICATION Spec
INVARIANTS TypeOK FenceInv NodeExclusive NoOrphanLease
