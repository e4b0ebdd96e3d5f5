CONSTANTS
    t1 = t1
    t2 = t2
    t3 = t3
    qa = qa
    qd = qd
    Tx = {t1, t2, t3}
    Queue = {qa, qd}
    QueueOf <- ChainedAndDefault
    Chained = {qa}
    Client = {c1, c2}
    LockCap = 1
    UnlockCap = 1
    MaxLocks = 2
    Request = {r1, r2}
    MaxBatch = 2
    MaxStamp = 3
    Configured = {qa, qd}
    SigningQueues = {qd}
    DefaultQueue = qd
    Unnamed = {t3}
SPECIFICATION Spec
PROPERTY HeldUntilUsed
CHECK_DEADLOCK FALSE
