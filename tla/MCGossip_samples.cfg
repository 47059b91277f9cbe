\* Two reporting members and one link's record: lost, late and repeated pushes,
\* retention, expiry, a restart.  The requests of one member may arrive late.
CONSTANTS
    NoVal = NoVal
    NoSample = NoSample
    NoBucket = NoBucket
    NoRec = NoRec
    NoMember = NoMember
    v = v
    a = a
    b = b
    c = c
    Vals = {v}
    Members = {a, b}
    Owner = a
    Reporters = {a, b}
    Peers <- EachOther
    Reach <- EveryPair
    Slow <- OnePair
    Tasks = {w1}
    Costs = {c1}
    Stamps = {1}
    RingCap = 2
    BucketSecs = 2
    Reports <- OneReport
    DeltaLimit = 1
    RawKeep = 0
    Grace = 0
    MinNow = 1
    MaxNow = 2
    MaxPuts = 2
    MaxSeq = 1
    MaxLate = 1
    MaxRestarts = 1
SPECIFICATION Spec
INVARIANT AcceptedOnce
PROPERTY NewestKept
