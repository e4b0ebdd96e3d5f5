SPECIFICATION LiveSpec
CONSTANTS
    t1 = t1
    t2 = t2
    qa = qa
    qb = qb
    Tx = {t1, t2}
    Queue = {qa, qb}
    QueueOf <- TwoQueues
    Weight <- TwoWeights
    Cap = 2
    MaxBatch = 2
    SigningQueues = {qb}
    HasSigner = TRUE
    BadTx = {t2}
    MaxSlot = 2
    MaxForks = 0
    RetrySlotDiff = 0
    SlotModulus = 8
    OverflowChecks = FALSE
    Faults = {"crash", "dbMonitor"}
    MaxFaults = 1
INVARIANTS TypeOK UnitIsCurrent SnapIsCurrent
PROPERTIES LifecycleSpec PendingHandled StuckIsRetried
CHECK_DEADLOCK FALSE
