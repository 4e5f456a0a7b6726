SPECIFICATION BothSpec
CONSTANTS
    Conn = {c1, c2}
    Name = {a}
    GetReq = {g}
    SetReq = {s}
    NULL = NULL
    LogEnable = FALSE
    CountMod = 3
    MaxQueued = 3
SYMMETRY ConnSymmetry
INVARIANTS TypeOK BusyHeadSent OnlyHeadSent NoOrphanRequest CountIsTotal ScanTimerArmed
PROPERTY LogBuildKeepsUnsent
CHECK_DEADLOCK FALSE
