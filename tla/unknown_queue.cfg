SPECIFICATION LiveSpec
CONSTANTS
    t1 = t1
    t2 = t2
    qa = qa
    qb = qb
    Tx = {t1, t2}
    Queue = {qa, qb}
    QueueOf <- TwoQueues
    Weight <- OneWeight
    Cap = 2
    MaxBatch = 2
    SigningQueues = {}
    HasSigner = TRUE
    BadTx = {}
    MaxSlot = 1
    MaxForks = 0
    RetrySlotDiff = 1
    SlotModulus = 8
    OverflowChecks = FALSE
    Faults = {"crash"}
    MaxFaults = 1
PROPERTY UnknownQueueProcessed
CHECK_DEADLOCK FALSE
