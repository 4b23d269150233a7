SPECIFICATION FairSpec
CONSTANTS
    c1 = c1
    c2 = c2
    f1 = f1
    f2 = f2
    f3 = f3
    w1 = w1
    w2 = w2
    NoWorker = NoWorker
    Cands = {c1, c2}
    Forks = {f1, f2, f3}
    FailedForks = {f1, f3}
    Snapshotted = {f1, f2}
    Faulty = {f1}
    Batches <- MCBatches
    Workers = {w1, w2}
    Modes <- MCModes
    NRepro = 3
INVARIANTS
    TypeOK
    TierEarnedByReplay
    EarlyStopKeepsVerdict
    ControlSharedPerFork
    PriceOfVerdict
    ParallelAgreesWithSerial
PROPERTIES
    ImplementsCertification
    BatchEnds
\* A batch stops when every candidate is finished or its caller gave up.
CHECK_DEADLOCK FALSE
