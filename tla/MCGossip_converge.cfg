\* A member that reports in two concurrent tasks, a peer that packets reach, and
\* one whose packets are dropped, so that a push to it hangs to its time-out.
CONSTANTS
    NoVal = NoVal
    NoSample = NoSample
    NoBucket = NoBucket
    NoRec = NoRec
    NoMember = NoMember
    v = v
    a = a
    b = b
    c = c
    Vals = {v}
    Members = {a, b, c}
    Owner = a
    Reporters = {a}
    Peers <- Fan
    Reach <- OnePair
    Slow <- OnePair
    Tasks = {w1, w2}
    Costs = {}
    Stamps = {1, 2}
    RingCap = 2
    BucketSecs = 2
    Reports <- OneReport
    DeltaLimit = 1
    RawKeep = 0
    Grace = 5
    MinNow = 1
    MaxNow = 2
    MaxPuts = 0
    MaxSeq = 2
    MaxLate = 1
    MaxRestarts = 0
SPECIFICATION FairSpec
INVARIANT NothingSkipped
PROPERTY Replicated
