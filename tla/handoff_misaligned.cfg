SPECIFICATION Spec
CONSTANTS
    g = g
    s1 = s1
    s2 = s2
    a = a
    b = b
    Thread = {t1, t2}
    GetReq = {g}
    SetReq = {s1, s2}
    Name = {a, b}
    Target <- MCTarget
    MainThread = main
    NULL = NULL
    SignalLen = 2
    BufSize = 5
    MaxSignals = 3
INVARIANT NoLostWakeup
