SPECIFICATION GatewaySpec
CONSTANTS
    a = a
    Conn = {c1}
    Name = {a}
    GetReq = {g}
    SetReq = {}
    NULL = NULL
    LogEnable = FALSE
    CountMod = 256
    MaxQueued = 6
    Thread = {t1}
    Target <- MCTarget
    MainThread = main
    SignalLen = 2
    BufSize = 4
    MaxSignals = 2
    HelloPeriod = 3
    BusyLimit = 3
    MaxDelay = 1
    ReadMax = 1
    MaxInbox = 2
    Unasked = {"NOTIF"}
PROPERTIES RequestEnds SilentNodeRemoved
INVARIANTS NeverCrashes LiveNodeKept UpIsConnected
