CONSTANTS
    w1 = w1
    w2 = w2
    s1 = s1
    s2 = s2
    s3 = s3
    Worker = {w1, w2}
    Slot = {s1, s2, s3}
    WorkerOf <- TwoSlotsAndOne
    Battle = {b1}
    NoWorker = NoWorker
    NoBattle = NoBattle
    MaxAttempts = 2
    LockTicks = 2
    LeaseTicks = 1
    MaxAtOnce = 2
    MaxFaults = 2
SPECIFICATION FairSpec
INVARIANTS IInv HolderUnique ReplayOfWinner
PROPERTIES KeepsLifecycle SettledOrReviewed SettledWithoutFaults
CHECK_DEADLOCK FALSE
