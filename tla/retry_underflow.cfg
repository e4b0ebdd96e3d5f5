SPECIFICATION Spec
CONSTANTS
    t1 = t1
    t2 = t2
    qa = qa
    qb = qb
    Tx = {t1}
    Queue = {qa, qb}
    QueueOf <- OneTx
    Weight <- OneWeight
    Cap = 1
    MaxBatch = 1
    SigningQueues = {}
    HasSigner = TRUE
    BadTx = {}
    MaxSlot = 3
    MaxForks = 0
    RetrySlotDiff = 1
    SlotModulus = 8
    OverflowChecks = FALSE
    Faults = {}
    MaxFaults = 0
PROPERTY RetryOnlyAfterDiff
CHECK_DEADLOCK FALSE
