\* Two agents, a tunnel and a classifying member over five blocks.
CONSTANTS
    Bands = {"s"}
    MarkMinPkts = 1
    MarkWindow = 2
    MarkRecover = 4
    QUEUE_CAP = 1
    PAUSE_HISTORY = 1
    LastBlock = 4
    MaxPackets = 1
    MaxUpsets = 1
SPECIFICATION Spec
INVARIANTS TypeOK ExactLoss TotalsOnce TestsExcluded CleanIsClean
PROPERTY AtMostOnce
