SPECIFICATION Spec
CONSTANTS
    ClientCount = 2
    TopicCount = 2
INVARIANTS TypeOK NoneForgotten ExitNeedsLoss
PROPERTIES HoldsThenSubscribed
CHECK_DEADLOCK FALSE
