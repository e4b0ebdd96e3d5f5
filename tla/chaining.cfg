CONSTANTS
    t1 = t1
    t2 = t2
    t3 = t3
    qa = qa
    qd = qd
    Tx = {t1, t2}
    Queue = {qa, qd}
    QueueOf <- BothChained
    Chained = {qa}
    Client = {c1, c2}
    LockCap = 1
    UnlockCap = 1
    MaxLocks = 2
    Request = {r1, r2}
    MaxBatch = 2
    MaxStamp = 3
    Configured = {qa, qd}
    SigningQueues = {qd}
    DefaultQueue = qd
    Unnamed = {}
SPECIFICATION LiveSpec
INVARIANTS TypeOK TokenOnlyWhileHeld ChainLinear
PROPERTY LockAnswered
CHECK_DEADLOCK FALSE
