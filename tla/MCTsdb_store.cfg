\* One ingesting task: the ring overflows, retention, failed transactions, a crash.
CONSTANTS
    NoVal = NoVal
    NoSample = NoSample
    NoBucket = NoBucket
    v = v
    Vals = {v}
    Stamps = {1, 2}
    RingCap = 1
    BucketSecs = 3
    RawKeep = 1
    AggKeep = 2
    MaxNow = 3
    MaxRestarts = 1
    MaxFaults = 1
    Threads = {t1}
    MaxIngests = 3
    Reports <- TwoReports
SPECIFICATION Spec
INVARIANTS TypeOK AboveFloor CountedOnce NothingLost
