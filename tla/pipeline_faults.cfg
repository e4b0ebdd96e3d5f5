SPECIFICATION Spec
CONSTANTS
    t1 = t1
    t2 = t2
    qa = qa
    qb = qb
    Tx = {t1, t2}
    Queue = {qa, qb}
    QueueOf <- TwoQueues
    Weight <- OneWeight
    Cap = 2
    MaxBatch = 2
    SigningQueues = {qa}
    HasSigner = TRUE
    BadTx = {}
    MaxSlot = 2
    MaxForks = 0
    RetrySlotDiff = 0
    SlotModulus = 8
    OverflowChecks = FALSE
    Faults = {"crash", "dbMonitor", "dbIngest", "u5cCheck", "u5cTip", "stream", "eof", "signer", "nopeer"}
    MaxFaults = 2
INVARIANTS SentBeforeInFlight SlotDiscipline PanicNeedsRollback
CHECK_DEADLOCK FALSE
