SPECIFICATION LiveSpec
CONSTANTS
    a1 = a1
    a2 = a2
    a3 = a3
    Addr = {a1, a2}
    Configured = {a1, a2}
    Relay = {}
    Desired = 2
    U8 = 4
    RingSize = 1
    Cap = 1
    U16 = 4
    Overshoot = 0
    MempoolCap = 3
    Window <- Windows
    InnerTicks = 1
    OuterTicks = 2
    MaxMsgs = 2
    MaxErrors = 0
    MaxLost = 1
PROPERTY BroadcastGoesOn
CHECK_DEADLOCK FALSE
