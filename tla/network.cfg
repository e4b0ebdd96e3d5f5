SPECIFICATION LiveSpec
CONSTANTS
    a1 = a1
    a2 = a2
    a3 = a3
    Addr = {a1, a2, a3}
    Configured = {a1}
    Relay = {a2}
    Desired = 2
    U8 = 4
    RingSize = 2
    Cap = 1
    U16 = 4
    Overshoot = 0
    MempoolCap = 1
    Window <- Windows
    InnerTicks = 1
    OuterTicks = 2
    MaxMsgs = 3
    MaxErrors = 1
    MaxLost = 1
INVARIANTS TypeOK MempoolMirrorsNode FifoOrder ChannelWithinCap ConnectedWithinDesired
PROPERTIES NonBlockingAnswered OnlyBrokenStalls KeepsLooking
CHECK_DEADLOCK FALSE
