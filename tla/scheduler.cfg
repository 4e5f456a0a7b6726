SPECIFICATION Spec
CONSTANTS
    once = once
    always = always
    lamp = lamp
    local = local
    remote = remote
    Timer = {once, always}
    Elem = {once, always}
    Root = Root
    Wild = Wild
    Persist <- MCPersist
    Switch <- MCSwitch
    Thread = {local, remote}
    Heard <- MCHeard
    Interval = 1
    None = None
    Torn = Torn
    MaxId = 2
INVARIANTS TypeOK ListKept UniqueIds FaultOnlyAfterRace TimersSaved NoStrayFile
PROPERTIES NotEarly OnIsAnswered
